---- MODULE Spec2Model ----
(***************************************************************************)
(* Pixel-wise kernels of EXtra-foam's f_imageproc.hpp: NaN-aware masking,  *)
(* nanmean, moving average and gain/offset correction, over caller-owned   *)
(* buffers.  A buffer is a record [shape, data]; an Image has a shape of   *)
(* length 2, an ImageArray a shape of length 3, indices are 0-based as in  *)
(* the code.  A float is a pair <<n, d>>: the rational n/d in lowest terms *)
(* when d > 0, and NaN when d = 0.                                         *)
(***************************************************************************)
EXTENDS Integers, Sequences, FiniteSets, TLC

VARIABLES
  withTBB,   \* build flag FOAM_WITH_TBB: TRUE = parallel path, FALSE = sequential fallback
  src,       \* the data buffer mutated in place (Image or ImageArray)
  src2,      \* second buffer of the same type: src2 / data / constants / gain
  src3,      \* third buffer of the same type: offset
  mask,      \* boolean image mask (read-only argument)
  out,       \* boolean output mask (accumulates)
  ret,       \* buffer returned by the last nanmean call
  op,        \* the kernel overload called last
  lb, ub,    \* thresholds passed to the last call
  count,     \* count passed to the last movingAvgImageData call
  keep,      \* keep passed to the last nanmeanImageArray call
  err,       \* what the last call raised
  src0,      \* src as it was when the last call started
  out0,      \* out as it was when the last call started
  fed,       \* the movingAvgImageData calls that returned since src was last
             \* written by another kernel: data, count, and src before the call
  par        \* per caller thread, the call it has in flight, block by block

vars == <<withTBB, src, src2, src3, mask, out, ret, op, lb, ub, count, keep, err, src0, out0, fed, par>>

-----------------------------------------------------------------------------
(* Bounds of the model *)

MaxVal == 2       \* finite pixel values are the integers 0..MaxVal
MaxPix == 2       \* an image has at most MaxPix pixels (rows * cols)
MaxFrames == 2    \* an image array has at most MaxFrames frames
MaxKeep == 2      \* keep selects at most MaxKeep frame indices
MaxCount == 3     \* movingAvgImageData is called with a count of at most MaxCount
MaxCalls == 3      \* a sequence of unrelated movingAvgImageData calls has at most MaxCalls calls

-----------------------------------------------------------------------------
(* Floating point values *)

NaN == <<0, 0>>

R(k) == <<k, 1>>

Zero == R(0)

isnan(v) == v[2] = 0

Abs(x) == IF x < 0 THEN -x ELSE x

RECURSIVE GCD(_, _)
GCD(a, b) == IF b = 0 THEN a ELSE GCD(b, a % b)

\* n/d in lowest terms, d > 0
Norm(n, d) == LET g == GCD(Abs(n), d) IN <<n \div g, d \div g>>

\* a < b; false when either side is NaN
Less(a, b) == /\ ~isnan(a)
              /\ ~isnan(b)
              /\ a[1] * b[2] < b[1] * a[2]

Add(a, b) == IF isnan(a) \/ isnan(b) THEN NaN
             ELSE Norm(a[1] * b[2] + b[1] * a[2], a[2] * b[2])

Sub(a, b) == IF isnan(a) \/ isnan(b) THEN NaN
             ELSE Norm(a[1] * b[2] - b[1] * a[2], a[2] * b[2])

Mul(a, b) == IF isnan(a) \/ isnan(b) THEN NaN
             ELSE Norm(a[1] * b[1], a[2] * b[2])

\* a / value_type(n) for a count n; 0/0 is NaN, x/0 for x # 0 is not modelled
DivCount(a, n) == IF isnan(a) \/ n = 0 THEN NaN ELSE Norm(a[1], a[2] * n)

\* conversion of a float to bool: anything but zero is true, NaN included
ToBool(v) == isnan(v) \/ v[1] # 0

-----------------------------------------------------------------------------
(* Buffers and shapes *)

IsImage(b) == Len(b.shape) = 2

IsImageArray(b) == Len(b.shape) = 3

Indices(shape) ==
  IF Len(shape) = 2
  THEN (0 .. shape[1] - 1) \X (0 .. shape[2] - 1)
  ELSE (0 .. shape[1] - 1) \X (0 .. shape[2] - 1) \X (0 .. shape[3] - 1)

\* shapeA without its first offset dimensions equals shapeB
checkShape(shapeA, shapeB, offset) ==
  SubSeq(shapeA, offset + 1, Len(shapeA)) = shapeB

NoError == "none"
ShapeError == "shape_mismatch"
InvalidArgument == "invalid_argument"

\* the buffer that holds x everywhere
Uniform(shape, x) == [shape |-> shape, data |-> [p \in Indices(shape) |-> x]]

\* no buffer at all
NoBuffer == [shape |-> <<>>, data |-> <<>>]

\* the buffer with the data replaced
WithData(b, d) == [shape |-> b.shape, data |-> d]

\* the threads of the caller
Threads == {"first", "second"}

\* a thread that has made no call
Idle ==
  [status |-> "idle", kernel |-> "none", err |-> NoError, target |-> "none",
   captured |-> <<>>, keep |-> <<>>, blocks |-> {}, done |-> <<>>,
   before |-> <<>>, visits |-> <<>>]

-----------------------------------------------------------------------------
(* Loop bodies of the Image masking kernels: the new pixel value, or the   *)
(* pair <<new pixel value, new output bit>>.                               *)

\* a variant that changes nothing
maskImageDataZero_Body_Keeps(v) == v

maskImageDataZero_Body(v) == IF isnan(v) THEN Zero ELSE v

imageDataNanMask_Body(v, o) == IF isnan(v) THEN TRUE ELSE o

maskImageDataZero_T_Body(v, lb_, ub_) ==
  IF isnan(v) \/ Less(v, lb_) \/ Less(ub_, v) THEN Zero ELSE v

maskImageDataZero_TO_Body(v, o, lb_, ub_) ==
  IF isnan(v) \/ Less(v, lb_) \/ Less(ub_, v) THEN <<Zero, TRUE>> ELSE <<v, o>>

maskImageDataNan_T_Body(v, lb_, ub_) ==
  IF isnan(v) THEN v
  ELSE IF Less(v, lb_) \/ Less(ub_, v) THEN NaN ELSE v

\* a variant that assigns the output bit instead of setting it
maskImageDataNan_TO_Body_Assigns(v, o, lb_, ub_) ==
  IF isnan(v) THEN <<v, TRUE>>
  ELSE IF Less(v, lb_) \/ Less(ub_, v) THEN <<NaN, TRUE>> ELSE <<v, FALSE>>

maskImageDataNan_TO_Body(v, o, lb_, ub_) ==
  IF isnan(v) THEN <<v, TRUE>>
  ELSE IF Less(v, lb_) \/ Less(ub_, v) THEN <<NaN, TRUE>> ELSE <<v, o>>

\* a variant that leaves a NaN whose mask bit is false
maskImageDataZero_M_Body_KeepsNan(v, m) == IF m THEN Zero ELSE v

maskImageDataZero_M_Body(v, m) == IF m \/ isnan(v) THEN Zero ELSE v

\* a variant that records the mask hits only
maskImageDataZero_MO_Body_MaskOnly(v, m, o) ==
  IF m THEN <<Zero, TRUE>> ELSE IF isnan(v) THEN <<Zero, o>> ELSE <<v, o>>

maskImageDataZero_MO_Body(v, m, o) ==
  IF m \/ isnan(v) THEN <<Zero, TRUE>> ELSE <<v, o>>

maskImageDataNan_M_Body(v, m) == IF m THEN NaN ELSE v

\* a variant that tests the mask only
maskImageDataNan_MO_Body_MaskOnly(v, m, o) ==
  IF m THEN <<NaN, TRUE>> ELSE <<v, o>>

maskImageDataNan_MO_Body(v, m, o) ==
  IF isnan(v) THEN <<v, TRUE>>
  ELSE IF m THEN <<NaN, ToBool(NaN)>> ELSE <<v, o>>

maskImageDataZero_MT_Body(v, m, lb_, ub_) ==
  IF m THEN Zero
  ELSE IF isnan(v) \/ Less(v, lb_) \/ Less(ub_, v) THEN Zero ELSE v

maskImageDataZero_MTO_Body(v, m, o, lb_, ub_) ==
  IF m THEN <<Zero, TRUE>>
  ELSE IF isnan(v) \/ Less(v, lb_) \/ Less(ub_, v) THEN <<Zero, TRUE>> ELSE <<v, o>>

maskImageDataNan_MT_Body(v, m, lb_, ub_) ==
  IF m THEN NaN
  ELSE IF isnan(v) THEN v
  ELSE IF Less(v, lb_) \/ Less(ub_, v) THEN NaN ELSE v

\* a variant that does not record a pixel that is already NaN
maskImageDataNan_MTO_Body_NanUnrecorded(v, m, o, lb_, ub_) ==
  IF m THEN <<NaN, TRUE>>
  ELSE IF isnan(v) THEN <<v, o>>
  ELSE IF Less(v, lb_) \/ Less(ub_, v) THEN <<NaN, TRUE>> ELSE <<v, o>>

maskImageDataNan_MTO_Body(v, m, o, lb_, ub_) ==
  IF m THEN <<NaN, TRUE>>
  ELSE IF isnan(v) THEN <<v, TRUE>>
  ELSE IF Less(v, lb_) \/ Less(ub_, v) THEN <<NaN, TRUE>> ELSE <<v, o>>

-----------------------------------------------------------------------------
(* A call: what every kernel records on entry, and how it ends *)

Enter(name, lb_, ub_, count_, keep_) ==
  /\ op = "none"
  /\ op' = name
  /\ lb' = lb_
  /\ ub' = ub_
  /\ count' = count_
  /\ keep' = keep_
  /\ src0' = src
  /\ out0' = out
  /\ UNCHANGED <<withTBB, src2, src3, mask, par>>

\* the call throws before any write
Throw(e) ==
  /\ err' = e
  /\ UNCHANGED <<src, out, ret, fed>>

\* the call returns with src and out as given
Return(newSrc, newOut) ==
  /\ err' = NoError
  /\ src' = newSrc
  /\ out' = newOut
  /\ fed' = IF op' \in {"movingAvgImageData_I", "movingAvgImageData_A"}
            THEN Append(fed, [data |-> src2.data, count |-> count', before |-> src.data])
            ELSE <<>>
  /\ UNCHANGED ret

\* the caller is done with the call's outcome and may call again
Proceed ==
  /\ op # "none"
  /\ op' = "none"
  /\ lb' = NaN
  /\ ub' = NaN
  /\ count' = 0
  /\ keep' = <<>>
  /\ err' = NoError
  /\ ret' = NoBuffer
  /\ src0' = src
  /\ out0' = out
  /\ UNCHANGED <<withTBB, src, src2, src3, mask, out, fed, par>>

\* the caller is done with the call's outcome and passes other data next
ProceedWith(data) ==
  /\ op # "none"
  /\ op' = "none"
  /\ lb' = NaN
  /\ ub' = NaN
  /\ count' = 0
  /\ keep' = <<>>
  /\ err' = NoError
  /\ ret' = NoBuffer
  /\ src0' = src
  /\ out0' = out
  /\ src2' = data
  /\ UNCHANGED <<withTBB, src, src3, mask, out, fed, par>>

\* first and second components of a function of pairs
Fst(f) == [p \in DOMAIN f |-> f[p][1]]
Snd(f) == [p \in DOMAIN f |-> f[p][2]]

-----------------------------------------------------------------------------
(* Image masking kernels *)

maskImageDataZero_I ==
  /\ IsImage(src)
  /\ Enter("maskImageDataZero_I", NaN, NaN, 0, <<>>)
  /\ Return(WithData(src, [p \in Indices(src.shape) |->
                             maskImageDataZero_Body(src.data[p])]), out)

maskImageDataNan_I ==
  /\ IsImage(src)
  /\ Enter("maskImageDataNan_I", NaN, NaN, 0, <<>>)
  /\ Return(src, out)

imageDataNanMask ==
  /\ IsImage(src)
  /\ Enter("imageDataNanMask", NaN, NaN, 0, <<>>)
  /\ IF ~checkShape(src.shape, out.shape, 0) THEN Throw(ShapeError)
     ELSE Return(src, WithData(out, [p \in Indices(src.shape) |->
                                 imageDataNanMask_Body(src.data[p], out.data[p])]))

maskImageDataZero_T(lb_, ub_) ==
  /\ IsImage(src)
  /\ Enter("maskImageDataZero_T", lb_, ub_, 0, <<>>)
  /\ Return(WithData(src, [p \in Indices(src.shape) |->
                             maskImageDataZero_T_Body(src.data[p], lb_, ub_)]), out)

maskImageDataZero_TO(lb_, ub_) ==
  /\ IsImage(src)
  /\ Enter("maskImageDataZero_TO", lb_, ub_, 0, <<>>)
  /\ IF ~checkShape(src.shape, out.shape, 0) THEN Throw(ShapeError)
     ELSE LET r == [p \in Indices(src.shape) |->
                      maskImageDataZero_TO_Body(src.data[p], out.data[p], lb_, ub_)]
          IN Return(WithData(src, Fst(r)), WithData(out, Snd(r)))

maskImageDataNan_T(lb_, ub_) ==
  /\ IsImage(src)
  /\ Enter("maskImageDataNan_T", lb_, ub_, 0, <<>>)
  /\ Return(WithData(src, [p \in Indices(src.shape) |->
                             maskImageDataNan_T_Body(src.data[p], lb_, ub_)]), out)

maskImageDataNan_TO(lb_, ub_) ==
  /\ IsImage(src)
  /\ Enter("maskImageDataNan_TO", lb_, ub_, 0, <<>>)
  /\ IF ~checkShape(src.shape, out.shape, 0) THEN Throw(ShapeError)
     ELSE LET r == [p \in Indices(src.shape) |->
                      maskImageDataNan_TO_Body(src.data[p], out.data[p], lb_, ub_)]
          IN Return(WithData(src, Fst(r)), WithData(out, Snd(r)))

maskImageDataZero_M ==
  /\ IsImage(src)
  /\ Enter("maskImageDataZero_M", NaN, NaN, 0, <<>>)
  /\ IF ~checkShape(src.shape, mask.shape, 0) THEN Throw(ShapeError)
     ELSE Return(WithData(src, [p \in Indices(src.shape) |->
                    maskImageDataZero_M_Body(src.data[p], mask.data[p])]), out)

maskImageDataZero_MO ==
  /\ IsImage(src)
  /\ Enter("maskImageDataZero_MO", NaN, NaN, 0, <<>>)
  /\ IF ~checkShape(src.shape, mask.shape, 0) THEN Throw(ShapeError)
     ELSE IF ~checkShape(src.shape, out.shape, 0) THEN Throw(ShapeError)
     ELSE LET r == [p \in Indices(src.shape) |->
                      maskImageDataZero_MO_Body(src.data[p], mask.data[p], out.data[p])]
          IN Return(WithData(src, Fst(r)), WithData(out, Snd(r)))

maskImageDataNan_M ==
  /\ IsImage(src)
  /\ Enter("maskImageDataNan_M", NaN, NaN, 0, <<>>)
  /\ IF ~checkShape(src.shape, mask.shape, 0) THEN Throw(ShapeError)
     ELSE Return(WithData(src, [p \in Indices(src.shape) |->
                    maskImageDataNan_M_Body(src.data[p], mask.data[p])]), out)

maskImageDataNan_MO ==
  /\ IsImage(src)
  /\ Enter("maskImageDataNan_MO", NaN, NaN, 0, <<>>)
  /\ IF ~checkShape(src.shape, mask.shape, 0) THEN Throw(ShapeError)
     ELSE IF ~checkShape(src.shape, out.shape, 0) THEN Throw(ShapeError)
     ELSE LET r == [p \in Indices(src.shape) |->
                      maskImageDataNan_MO_Body(src.data[p], mask.data[p], out.data[p])]
          IN Return(WithData(src, Fst(r)), WithData(out, Snd(r)))

maskImageDataZero_MT(lb_, ub_) ==
  /\ IsImage(src)
  /\ Enter("maskImageDataZero_MT", lb_, ub_, 0, <<>>)
  /\ IF ~checkShape(src.shape, mask.shape, 0) THEN Throw(ShapeError)
     ELSE Return(WithData(src, [p \in Indices(src.shape) |->
                    maskImageDataZero_MT_Body(src.data[p], mask.data[p], lb_, ub_)]), out)

maskImageDataZero_MTO(lb_, ub_) ==
  /\ IsImage(src)
  /\ Enter("maskImageDataZero_MTO", lb_, ub_, 0, <<>>)
  /\ IF ~checkShape(src.shape, mask.shape, 0) THEN Throw(ShapeError)
     ELSE IF ~checkShape(src.shape, out.shape, 0) THEN Throw(ShapeError)
     ELSE LET r == [p \in Indices(src.shape) |->
                      maskImageDataZero_MTO_Body(src.data[p], mask.data[p],
                                                 out.data[p], lb_, ub_)]
          IN Return(WithData(src, Fst(r)), WithData(out, Snd(r)))

maskImageDataNan_MT(lb_, ub_) ==
  /\ IsImage(src)
  /\ Enter("maskImageDataNan_MT", lb_, ub_, 0, <<>>)
  /\ IF ~checkShape(src.shape, mask.shape, 0) THEN Throw(ShapeError)
     ELSE Return(WithData(src, [p \in Indices(src.shape) |->
                    maskImageDataNan_MT_Body(src.data[p], mask.data[p], lb_, ub_)]), out)

\* a variant that checks the shape of out after the loop over src
maskImageDataNan_MTO_LateCheck(lb_, ub_) ==
  /\ IsImage(src)
  /\ Enter("maskImageDataNan_MTO", lb_, ub_, 0, <<>>)
  /\ IF ~checkShape(src.shape, mask.shape, 0) THEN Throw(ShapeError)
     ELSE LET d == [p \in Indices(src.shape) |->
                      maskImageDataNan_MT_Body(src.data[p], mask.data[p], lb_, ub_)]
          IN IF ~checkShape(src.shape, out.shape, 0)
             THEN err' = ShapeError /\ src' = WithData(src, d) /\ UNCHANGED <<out, ret, fed>>
             ELSE Return(WithData(src, d),
                         WithData(out, [p \in Indices(src.shape) |->
                            maskImageDataNan_MTO_Body(src.data[p], mask.data[p],
                                                      out.data[p], lb_, ub_)[2]]))

maskImageDataNan_MTO(lb_, ub_) ==
  /\ IsImage(src)
  /\ Enter("maskImageDataNan_MTO", lb_, ub_, 0, <<>>)
  /\ IF ~checkShape(src.shape, mask.shape, 0) THEN Throw(ShapeError)
     ELSE IF ~checkShape(src.shape, out.shape, 0) THEN Throw(ShapeError)
     ELSE LET r == [p \in Indices(src.shape) |->
                      maskImageDataNan_MTO_Body(src.data[p], mask.data[p],
                                                out.data[p], lb_, ub_)]
          IN Return(WithData(src, Fst(r)), WithData(out, Snd(r)))

-----------------------------------------------------------------------------
(* tbb::parallel_for over a blocked_range3d / blocked_range2d.  A block is *)
(* a box of half-open index ranges; the partitioner may split a block that *)
(* holds more than one index in the middle of one dimension (grain size    *)
(* 1), so the blocks a call runs are the leaves of some tree of splits.    *)

Range(b, e) == [begin |-> b, end |-> e]

Size(r) == r.end - r.begin

Lower(r) == Range(r.begin, r.begin + (Size(r) \div 2))

Upper(r) == Range(r.begin + (Size(r) \div 2), r.end)

Block3d(p, r, c) == [pages |-> p, rows |-> r, cols |-> c]

\* blocked_range3d<int>(0, shape[0], 0, shape[1], 0, shape[2])
WholeRange3d(shape) ==
  Block3d(Range(0, shape[1]), Range(0, shape[2]), Range(0, shape[3]))

\* (i, j, k) is visited by the loops over the block
InBlock(p, b) ==
  /\ b.pages.begin <= p[1] /\ p[1] < b.pages.end
  /\ b.rows.begin <= p[2] /\ p[2] < b.rows.end
  /\ b.cols.begin <= p[3] /\ p[3] < b.cols.end

IsDivisible(b) == Size(b.pages) > 1 \/ Size(b.rows) > 1 \/ Size(b.cols) > 1

\* the two halves of a block: the dimension that is largest is the one split
SplitBlock(b) ==
  IF Size(b.pages) < Size(b.rows)
  THEN IF Size(b.rows) < Size(b.cols)
       THEN <<Block3d(b.pages, b.rows, Lower(b.cols)), Block3d(b.pages, b.rows, Upper(b.cols))>>
       ELSE <<Block3d(b.pages, Lower(b.rows), b.cols), Block3d(b.pages, Upper(b.rows), b.cols)>>
  ELSE IF Size(b.pages) < Size(b.cols)
       THEN <<Block3d(b.pages, b.rows, Lower(b.cols)), Block3d(b.pages, b.rows, Upper(b.cols))>>
       ELSE <<Block3d(Lower(b.pages), b.rows, b.cols), Block3d(Upper(b.pages), b.rows, b.cols)>>

\* every set of blocks the partitioner can hand to the workers
RECURSIVE Partitions(_)
Partitions(b) ==
  IF ~IsDivisible(b) THEN {{b}}
  ELSE {{b}} \cup { P \cup Q : P \in Partitions(SplitBlock(b)[1]),
                               Q \in Partitions(SplitBlock(b)[2]) }

-----------------------------------------------------------------------------
(* Loop bodies of the ImageArray masking kernels (parallel path, and the   *)
(* sequential loops that share them): the new value of element (i, j, k).  *)

maskImageDataZero_A_Body(v) == IF isnan(v) THEN Zero ELSE v

\* a variant whose upper bound is exclusive
maskImageDataZero_AT_Body_Exclusive(v, lb_, ub_) ==
  IF isnan(v) \/ Less(v, lb_) \/ ~Less(v, ub_) THEN Zero ELSE v

maskImageDataZero_AT_Body(v, lb_, ub_) ==
  IF isnan(v) \/ Less(v, lb_) \/ Less(ub_, v) THEN Zero ELSE v

maskImageDataNan_AT_Body(v, lb_, ub_) ==
  IF isnan(v) THEN v
  ELSE IF Less(v, lb_) \/ Less(ub_, v) THEN NaN ELSE v

maskImageDataZero_AM_Body(v, m) == IF m \/ isnan(v) THEN Zero ELSE v

maskImageDataNan_AM_Body(v, m) == IF m THEN NaN ELSE v

\* a variant that does not read the mask
maskImageDataZero_AMT_Body_NoMask(v, m, lb_, ub_) ==
  IF isnan(v) \/ Less(v, lb_) \/ Less(ub_, v) THEN Zero ELSE v

maskImageDataZero_AMT_Body(v, m, lb_, ub_) ==
  IF m THEN Zero
  ELSE IF isnan(v) \/ Less(v, lb_) \/ Less(ub_, v) THEN Zero ELSE v

maskImageDataNan_AMT_Body(v, m, lb_, ub_) ==
  IF m THEN NaN
  ELSE IF isnan(v) THEN v
  ELSE IF Less(v, lb_) \/ Less(ub_, v) THEN NaN ELSE v

\* mask(j, k) for the element (i, j, k) of an image array
MaskAt(p) == mask.data[<<p[2], p[3]>>]

\* a variant that divides by one more than count
movingAvgImageData_Body_OffByOne(v, x, count_) == Add(v, DivCount(Sub(x, v), count_ + 1))

\* src(i, j, k) += (data(i, j, k) - src(i, j, k)) / value_type(count)
\* a variant that skips NaN: a NaN sample is ignored, a NaN average restarts
movingAvgImageData_Body_NanAware(v, x, count_) ==
  IF isnan(x) THEN v
  ELSE IF isnan(v) THEN x
  ELSE Add(v, DivCount(Sub(x, v), count_))

movingAvgImageData_Body(v, x, count_) == Add(v, DivCount(Sub(x, v), count_))

\* a variant with the operands exchanged
OffsetPolicy_correct_Reversed(v, a) == Sub(a, v)

OffsetPolicy_correct(v, a) == Sub(v, a)

GainPolicy_correct(v, a) == Mul(v, a)

\* src(i, j, k) = Policy::correct(src(i, j, k), constants(i, j, k))
correctImageData_Policy_Body(policy, v, a) ==
  IF policy = "OffsetPolicy" THEN OffsetPolicy_correct(v, a) ELSE GainPolicy_correct(v, a)

\* a variant that multiplies before it subtracts
correctImageData_Body_GainFirst(v, g, o) == Sub(Mul(g, v), o)

\* src(i, j, k) = gain(i, j, k) * (src(i, j, k) - offset(i, j, k))
correctImageData_Body(v, g, o) == Mul(g, Sub(v, o))

\* what a lambda captures by value besides the buffers
Captured(lb_, ub_, count_) == [lb |-> lb_, ub |-> ub_, count |-> count_]

NoCapture == Captured(NaN, NaN, 0)

\* what the loop body of kernel k leaves in element p of data d
LoopBody(k, d, p, c) ==
  CASE k = "maskImageDataZero_A"   -> maskImageDataZero_A_Body(d[p])
    [] k = "maskImageDataZero_AT"  -> maskImageDataZero_AT_Body(d[p], c.lb, c.ub)
    [] k = "maskImageDataNan_AT"   -> maskImageDataNan_AT_Body(d[p], c.lb, c.ub)
    [] k = "maskImageDataZero_AM"  -> maskImageDataZero_AM_Body(d[p], MaskAt(p))
    [] k = "maskImageDataNan_AM"   -> maskImageDataNan_AM_Body(d[p], MaskAt(p))
    [] k = "maskImageDataZero_AMT" -> maskImageDataZero_AMT_Body(d[p], MaskAt(p), c.lb, c.ub)
    [] k = "maskImageDataNan_AMT"  -> maskImageDataNan_AMT_Body(d[p], MaskAt(p), c.lb, c.ub)
    [] k = "movingAvgImageData_A"  -> movingAvgImageData_Body(d[p], src2.data[p], c.count)
    [] k = "correctImageData_Offset_A" ->
         correctImageData_Policy_Body("OffsetPolicy", d[p], src2.data[p])
    [] k = "correctImageData_Gain_A" ->
         correctImageData_Policy_Body("GainPolicy", d[p], src2.data[p])
    [] k = "correctImageData_GainOffset_A" ->
         correctImageData_Body(d[p], src2.data[p], src3.data[p])

\* one worker runs the lambda on one block
RunBlock(k, d, b, c) ==
  [p \in DOMAIN d |-> IF InBlock(p, b) THEN LoopBody(k, d, p, c) ELSE d[p]]

\* the blocks of P run to completion, one after another
RECURSIVE RunBlocks(_, _, _, _)
RunBlocks(k, d, P, c) ==
  IF P = {} THEN d
  ELSE LET b == CHOOSE x \in P : TRUE
       IN RunBlocks(k, RunBlock(k, d, b, c), P \ {b}, c)

\* the data a tbb::parallel_for of kernel k over the whole of src can leave
ParallelFor(k, c) ==
  { RunBlocks(k, src.data, P, c) : P \in Partitions(WholeRange3d(src.shape)) }

\* the three nested for loops of the sequential path
SequentialFor(k, c) ==
  RunBlocks(k, src.data, {WholeRange3d(src.shape)}, c)

\* xt::filter(e, cond) = value: value wherever cond holds
xtFilterAssign(d, cond, value) == [p \in DOMAIN d |-> IF cond[p] THEN value ELSE d[p]]

-----------------------------------------------------------------------------
(* ImageArray masking kernels *)

maskImageDataZero_A ==
  /\ IsImageArray(src)
  /\ Enter("maskImageDataZero_A", NaN, NaN, 0, <<>>)
  /\ IF withTBB
     THEN \E d \in ParallelFor("maskImageDataZero_A", NoCapture) :
            Return(WithData(src, d), out)
     ELSE Return(WithData(src, xtFilterAssign(src.data,
                   [p \in DOMAIN src.data |-> isnan(src.data[p])], Zero)), out)

maskImageDataNan_A ==
  /\ IsImageArray(src)
  /\ Enter("maskImageDataNan_A", NaN, NaN, 0, <<>>)
  /\ Return(src, out)

maskImageDataZero_AT(lb_, ub_) ==
  /\ IsImageArray(src)
  /\ Enter("maskImageDataZero_AT", lb_, ub_, 0, <<>>)
  /\ IF withTBB
     THEN \E d \in ParallelFor("maskImageDataZero_AT", Captured(lb_, ub_, 0)) :
            Return(WithData(src, d), out)
     ELSE Return(WithData(src, xtFilterAssign(src.data,
                   [p \in DOMAIN src.data |-> \/ isnan(src.data[p])
                                              \/ Less(src.data[p], lb_)
                                              \/ Less(ub_, src.data[p])], Zero)), out)

maskImageDataNan_AT(lb_, ub_) ==
  /\ IsImageArray(src)
  /\ Enter("maskImageDataNan_AT", lb_, ub_, 0, <<>>)
  /\ IF withTBB
     THEN \E d \in ParallelFor("maskImageDataNan_AT", Captured(lb_, ub_, 0)) :
            Return(WithData(src, d), out)
     ELSE Return(WithData(src, xtFilterAssign(src.data,
                   [p \in DOMAIN src.data |-> \/ Less(src.data[p], lb_)
                                              \/ Less(ub_, src.data[p])], NaN)), out)

\* the kernels whose two paths share one loop body
MaskArrayWithMask(k, lb_, ub_) ==
  /\ IsImageArray(src)
  /\ Enter(k, lb_, ub_, 0, <<>>)
  /\ IF ~checkShape(src.shape, mask.shape, 1) THEN Throw(ShapeError)
     ELSE IF withTBB
     THEN \E d \in ParallelFor(k, Captured(lb_, ub_, 0)) : Return(WithData(src, d), out)
     ELSE Return(WithData(src, SequentialFor(k, Captured(lb_, ub_, 0))), out)

maskImageDataZero_AM == MaskArrayWithMask("maskImageDataZero_AM", NaN, NaN)

maskImageDataNan_AM == MaskArrayWithMask("maskImageDataNan_AM", NaN, NaN)

maskImageDataZero_AMT(lb_, ub_) == MaskArrayWithMask("maskImageDataZero_AMT", lb_, ub_)

maskImageDataNan_AMT(lb_, ub_) == MaskArrayWithMask("maskImageDataNan_AMT", lb_, ub_)

-----------------------------------------------------------------------------
(* nanmean *)

\* the call returns a new buffer and leaves its arguments alone
ReturnValue(r) ==
  /\ err' = NoError
  /\ ret' = r
  /\ UNCHANGED <<src, out, fed>>

\* blocked_range2d<int>(0, rows, 0, cols): a block of one page
WholeRange2d(rows, cols) == Block3d(Range(0, 1), Range(0, rows), Range(0, cols))

\* the frame indices 0, 1, ..., n - 1 in the order the loop visits them
AllFrames(n) == [i \in 1 .. n |-> i - 1]

\* the loop over the selected frames at pixel (j, k), from position n of
\* sel on: count and sum of the values that are not NaN
RECURSIVE Accumulate(_, _, _, _)
Accumulate(sel, n, jk, acc) ==
  IF n > Len(sel) THEN acc
  ELSE LET v == src.data[<<sel[n], jk[1], jk[2]>>]
       IN Accumulate(sel, n + 1, jk,
                     IF ~isnan(v)
                     THEN [count |-> acc.count + 1, sum |-> Add(acc.sum, v)]
                     ELSE acc)

\* mean(j, k) as one worker computes it; an empty keep selects every frame
\* a variant that divides by the number of selected frames
nanmeanImageArrayImp_Body_CountsNan(keep_, jk) ==
  LET sel == IF keep_ = <<>> THEN AllFrames(src.shape[1]) ELSE keep_
      acc == Accumulate(sel, 1, jk, [count |-> 0, sum |-> Zero])
  IN IF acc.count = 0 THEN NaN ELSE DivCount(acc.sum, Len(sel))

nanmeanImageArrayImp_Body(keep_, jk) ==
  LET sel == IF keep_ = <<>> THEN AllFrames(src.shape[1]) ELSE keep_
      acc == Accumulate(sel, 1, jk, [count |-> 0, sum |-> Zero])
  IN IF acc.count = 0 THEN NaN ELSE DivCount(acc.sum, acc.count)

RECURSIVE nanmeanRunBlocks(_, _, _)
nanmeanRunBlocks(m, P, keep_) ==
  IF P = {} THEN m
  ELSE LET b == CHOOSE x \in P : TRUE
           done == [q \in DOMAIN m |->
                      IF InBlock(<<0, q[1], q[2]>>, b)
                      THEN nanmeanImageArrayImp_Body(keep_, q) ELSE m[q]]
       IN nanmeanRunBlocks(done, P \ {b}, keep_)

\* the buffers detail::nanmeanImageArrayImp can return: mean is allocated
\* with whatever the memory holds, and the blocks fill it
nanmeanImageArrayImp(keep_) ==
  LET shape == <<src.shape[2], src.shape[3]>>
  IN { WithData(Uniform(shape, g), nanmeanRunBlocks(Uniform(shape, g).data, P, keep_)) :
         g \in {NaN, Zero}, P \in Partitions(WholeRange2d(shape[1], shape[2])) }

\* xt::nanmean(stack, 0) of a sequence of images: the sum of the values that
\* are not NaN over their number, 0/0 being NaN
RECURSIVE xtNansum(_, _, _)
xtNansum(stack, n, q) ==
  IF n > Len(stack) THEN Zero
  ELSE Add(IF isnan(stack[n][q]) THEN Zero ELSE stack[n][q], xtNansum(stack, n + 1, q))

xtNanmean(stack, shape) ==
  [shape |-> shape,
   data |-> [q \in Indices(shape) |->
               DivCount(xtNansum(stack, 1, q),
                        Cardinality({ n \in 1 .. Len(stack) : ~isnan(stack[n][q]) }))]]

\* xt::view(src, xt::keep(sel), xt::all(), xt::all()) as a sequence of images
xtViewKeep(sel) ==
  [n \in 1 .. Len(sel) |->
     [q \in Indices(<<src.shape[2], src.shape[3]>>) |-> src.data[<<sel[n], q[1], q[2]>>]]]

\* a variant without the check of keep
nanmeanImageArray_K_Unchecked(keep_) ==
  /\ IsImageArray(src)
  /\ Enter("nanmeanImageArray_K", NaN, NaN, 0, keep_)
  /\ IF withTBB
     THEN \E r \in nanmeanImageArrayImp(keep_) : ReturnValue(r)
     ELSE ReturnValue(xtNanmean(xtViewKeep(keep_), <<src.shape[2], src.shape[3]>>))

nanmeanImageArray_K(keep_) ==
  /\ IsImageArray(src)
  /\ Enter("nanmeanImageArray_K", NaN, NaN, 0, keep_)
  /\ IF withTBB
     THEN IF keep_ = <<>> THEN Throw(InvalidArgument)
          ELSE \E r \in nanmeanImageArrayImp(keep_) : ReturnValue(r)
     ELSE ReturnValue(xtNanmean(xtViewKeep(keep_), <<src.shape[2], src.shape[3]>>))

nanmeanImageArray ==
  /\ IsImageArray(src)
  /\ Enter("nanmeanImageArray", NaN, NaN, 0, <<>>)
  /\ IF withTBB
     THEN \E r \in nanmeanImageArrayImp(<<>>) : ReturnValue(r)
     ELSE ReturnValue(xtNanmean(xtViewKeep(AllFrames(src.shape[1])),
                                <<src.shape[2], src.shape[3]>>))

\* mean(j, k) of two images as one worker computes it
\* a variant that halves the one value that is not NaN
nanmeanImageArray_Pair_Body_Halves(x, y) ==
  IF isnan(x) /\ isnan(y) THEN NaN
  ELSE IF isnan(x) THEN Mul(<<1, 2>>, y)
  ELSE IF isnan(y) THEN Mul(<<1, 2>>, x)
  ELSE Mul(<<1, 2>>, Add(x, y))

nanmeanImageArray_Pair_Body(x, y) ==
  IF isnan(x) /\ isnan(y) THEN NaN
  ELSE IF isnan(x) THEN y
  ELSE IF isnan(y) THEN x
  ELSE Mul(<<1, 2>>, Add(x, y))

RECURSIVE nanmeanPairRunBlocks(_, _)
nanmeanPairRunBlocks(m, P) ==
  IF P = {} THEN m
  ELSE LET b == CHOOSE x \in P : TRUE
           done == [q \in DOMAIN m |->
                      IF InBlock(<<0, q[1], q[2]>>, b)
                      THEN nanmeanImageArray_Pair_Body(src.data[q], src2.data[q])
                      ELSE m[q]]
       IN nanmeanPairRunBlocks(done, P \ {b})

nanmeanImageArray_Pair ==
  /\ IsImage(src)
  /\ IsImage(src2)
  /\ Enter("nanmeanImageArray_Pair", NaN, NaN, 0, <<>>)
  /\ IF ~checkShape(src.shape, src2.shape, 0) THEN Throw(ShapeError)
     ELSE IF withTBB
     THEN \E g \in {NaN, Zero} :
          \E P \in Partitions(WholeRange2d(src.shape[1], src.shape[2])) :
            ReturnValue(WithData(src, nanmeanPairRunBlocks(Uniform(src.shape, g).data, P)))
     ELSE ReturnValue(xtNanmean(<<src.data, src2.data>>, src.shape))

-----------------------------------------------------------------------------
(* moving average: src is the average, src2 the new data *)

movingAvgImageData_I(count_) ==
  /\ IsImage(src)
  /\ IsImage(src2)
  /\ Enter("movingAvgImageData_I", NaN, NaN, count_, <<>>)
  /\ IF count_ = 0 THEN Throw(InvalidArgument)
     ELSE IF ~checkShape(src.shape, src2.shape, 0) THEN Throw(ShapeError)
     ELSE Return(WithData(src, [p \in Indices(src.shape) |->
                    movingAvgImageData_Body(src.data[p], src2.data[p], count_)]), out)

\* a variant that checks the shapes before count
movingAvgImageData_A_ShapeFirst(count_) ==
  /\ IsImageArray(src)
  /\ IsImageArray(src2)
  /\ Enter("movingAvgImageData_A", NaN, NaN, count_, <<>>)
  /\ IF ~checkShape(src.shape, src2.shape, 0) THEN Throw(ShapeError)
     ELSE IF count_ = 0 THEN Throw(InvalidArgument)
     ELSE IF withTBB
     THEN \E d \in ParallelFor("movingAvgImageData_A", Captured(NaN, NaN, count_)) :
            Return(WithData(src, d), out)
     ELSE Return(WithData(src, SequentialFor("movingAvgImageData_A",
                                             Captured(NaN, NaN, count_))), out)

movingAvgImageData_A(count_) ==
  /\ IsImageArray(src)
  /\ IsImageArray(src2)
  /\ Enter("movingAvgImageData_A", NaN, NaN, count_, <<>>)
  /\ IF count_ = 0 THEN Throw(InvalidArgument)
     ELSE IF ~checkShape(src.shape, src2.shape, 0) THEN Throw(ShapeError)
     ELSE IF withTBB
     THEN \E d \in ParallelFor("movingAvgImageData_A", Captured(NaN, NaN, count_)) :
            Return(WithData(src, d), out)
     ELSE Return(WithData(src, SequentialFor("movingAvgImageData_A",
                                             Captured(NaN, NaN, count_))), out)

-----------------------------------------------------------------------------
(* gain / offset correction: src2 is constants or gain, src3 is offset *)

\* correctImageData<Policy>(src, constants) for an image array
correctImageData_Policy_A(k) ==
  /\ IsImageArray(src)
  /\ IsImageArray(src2)
  /\ Enter(k, NaN, NaN, 0, <<>>)
  /\ IF ~checkShape(src.shape, src2.shape, 0) THEN Throw(ShapeError)
     ELSE IF withTBB
     THEN \E d \in ParallelFor(k, NoCapture) : Return(WithData(src, d), out)
     ELSE Return(WithData(src, SequentialFor(k, NoCapture)), out)

correctImageData_Offset_A == correctImageData_Policy_A("correctImageData_Offset_A")

correctImageData_Gain_A == correctImageData_Policy_A("correctImageData_Gain_A")

\* correctImageData<Policy>(src, constants) for an image
correctImageData_Policy_I(k, policy) ==
  /\ IsImage(src)
  /\ IsImage(src2)
  /\ Enter(k, NaN, NaN, 0, <<>>)
  /\ IF ~checkShape(src.shape, src2.shape, 0) THEN Throw(ShapeError)
     ELSE Return(WithData(src, [p \in Indices(src.shape) |->
                    correctImageData_Policy_Body(policy, src.data[p], src2.data[p])]), out)

correctImageData_Offset_I ==
  correctImageData_Policy_I("correctImageData_Offset_I", "OffsetPolicy")

correctImageData_Gain_I ==
  correctImageData_Policy_I("correctImageData_Gain_I", "GainPolicy")

correctImageData_GainOffset_A ==
  /\ IsImageArray(src)
  /\ IsImageArray(src2)
  /\ IsImageArray(src3)
  /\ Enter("correctImageData_GainOffset_A", NaN, NaN, 0, <<>>)
  /\ IF ~checkShape(src.shape, src2.shape, 0) THEN Throw(ShapeError)
     ELSE IF ~checkShape(src.shape, src3.shape, 0) THEN Throw(ShapeError)
     ELSE IF withTBB
     THEN \E d \in ParallelFor("correctImageData_GainOffset_A", NoCapture) :
            Return(WithData(src, d), out)
     ELSE Return(WithData(src, SequentialFor("correctImageData_GainOffset_A",
                                             NoCapture)), out)

correctImageData_GainOffset_I ==
  /\ IsImage(src)
  /\ IsImage(src2)
  /\ IsImage(src3)
  /\ Enter("correctImageData_GainOffset_I", NaN, NaN, 0, <<>>)
  /\ IF ~checkShape(src.shape, src2.shape, 0) THEN Throw(ShapeError)
     ELSE IF ~checkShape(src.shape, src3.shape, 0) THEN Throw(ShapeError)
     ELSE Return(WithData(src, [p \in Indices(src.shape) |->
                    correctImageData_Body(src.data[p], src2.data[p], src3.data[p])]), out)

-----------------------------------------------------------------------------
(* The masking overloads the file declares: the name the call has here,    *)
(* its criterion, what it writes into an invalid pixel, the rank of src,   *)
(* and whether an output mask is among its parameters.                     *)

Overload(name, criterion, fill, rank, out_) ==
  [name |-> name, criterion |-> criterion, fill |-> fill, rank |-> rank, out |-> out_]

Overloads ==
  { Overload("maskImageDataZero_I", "bare", "Zero", 2, FALSE),
    Overload("maskImageDataNan_I", "bare", "Nan", 2, FALSE),
    Overload("maskImageDataZero_T", "threshold", "Zero", 2, FALSE),
    Overload("maskImageDataZero_TO", "threshold", "Zero", 2, TRUE),
    Overload("maskImageDataNan_T", "threshold", "Nan", 2, FALSE),
    Overload("maskImageDataNan_TO", "threshold", "Nan", 2, TRUE),
    Overload("maskImageDataZero_M", "mask", "Zero", 2, FALSE),
    Overload("maskImageDataZero_MO", "mask", "Zero", 2, TRUE),
    Overload("maskImageDataNan_M", "mask", "Nan", 2, FALSE),
    Overload("maskImageDataNan_MO", "mask", "Nan", 2, TRUE),
    Overload("maskImageDataZero_MT", "mask+threshold", "Zero", 2, FALSE),
    Overload("maskImageDataZero_MTO", "mask+threshold", "Zero", 2, TRUE),
    Overload("maskImageDataNan_MT", "mask+threshold", "Nan", 2, FALSE),
    Overload("maskImageDataNan_MTO", "mask+threshold", "Nan", 2, TRUE),
    Overload("maskImageDataZero_A", "bare", "Zero", 3, FALSE),
    Overload("maskImageDataNan_A", "bare", "Nan", 3, FALSE),
    Overload("maskImageDataZero_AT", "threshold", "Zero", 3, FALSE),
    Overload("maskImageDataNan_AT", "threshold", "Nan", 3, FALSE),
    Overload("maskImageDataZero_AM", "mask", "Zero", 3, FALSE),
    Overload("maskImageDataNan_AM", "mask", "Nan", 3, FALSE),
    Overload("maskImageDataZero_AMT", "mask+threshold", "Zero", 3, FALSE),
    Overload("maskImageDataNan_AMT", "mask+threshold", "Nan", 3, FALSE) }

-----------------------------------------------------------------------------
(* A stack-wide call seen block by block.  The thread that makes the call  *)
(* runs the checks, tbb::parallel_for splits the index range into blocks,  *)
(* the blocks run their loops one element at a time in any interleaving,   *)
(* and the call returns when parallel_for does.  In a build without TBB    *)
(* the kernels written as nested loops run them over the whole range in    *)
(* the calling thread.  A second calling thread has src3 as its buffer.    *)

MaskArrayKernels ==
  { "maskImageDataZero_AM", "maskImageDataNan_AM",
    "maskImageDataZero_AMT", "maskImageDataNan_AMT" }

\* the kernels whose loop body is the same statement in both builds
LoopKernels ==
  MaskArrayKernels \cup
    { "movingAvgImageData_A", "correctImageData_Offset_A", "correctImageData_Gain_A",
      "correctImageData_GainOffset_A" }

NanmeanStackKernels == { "nanmeanImageArray_K", "nanmeanImageArray" }

\* the buffer a job writes
TargetBuffer(target) ==
  CASE target = "src" -> src
    [] target = "src3" -> src3
    [] target = "ret" -> ret

\* what the statements before the loops raise
Prologue(k, c, keep_, target) ==
  CASE k \in MaskArrayKernels ->
         IF checkShape(TargetBuffer(target).shape, mask.shape, 1) THEN NoError
         ELSE ShapeError
    [] k = "movingAvgImageData_A" ->
         IF c.count = 0 THEN InvalidArgument
         ELSE IF checkShape(TargetBuffer(target).shape, src2.shape, 0) THEN NoError
         ELSE ShapeError
    [] k \in {"correctImageData_Offset_A", "correctImageData_Gain_A"} ->
         IF checkShape(TargetBuffer(target).shape, src2.shape, 0) THEN NoError
         ELSE ShapeError
    [] k = "correctImageData_GainOffset_A" ->
         IF ~checkShape(src.shape, src2.shape, 0) THEN ShapeError
         ELSE IF checkShape(src.shape, src3.shape, 0) THEN NoError ELSE ShapeError
    [] k = "nanmeanImageArray_K" ->
         IF withTBB /\ keep_ = <<>> THEN InvalidArgument ELSE NoError
    [] k = "nanmeanImageArray_Pair" ->
         IF checkShape(src.shape, src2.shape, 0) THEN NoError ELSE ShapeError
    [] OTHER -> NoError

\* the index range handed to tbb::parallel_for
JobRange(k, target) ==
  IF k \in NanmeanStackKernels THEN WholeRange2d(src.shape[2], src.shape[3])
  ELSE IF k = "nanmeanImageArray_Pair" THEN WholeRange2d(src.shape[1], src.shape[2])
  ELSE WholeRange3d(TargetBuffer(target).shape)

\* the shape of the image a nanmean call returns
MeanShape(k) ==
  IF k \in NanmeanStackKernels THEN <<src.shape[2], src.shape[3]>> ELSE src.shape

Volume(b) == Size(b.pages) * Size(b.rows) * Size(b.cols)

\* the element the loops over block b visit after n others
\* a variant whose loops start at 0 instead of at the block's begin
ElementAt_FromZero(b, n) ==
  << n \div (Size(b.rows) * Size(b.cols)),
     (n \div Size(b.cols)) % Size(b.rows),
     n % Size(b.cols) >>

ElementAt(b, n) ==
  << b.pages.begin + (n \div (Size(b.rows) * Size(b.cols))),
     b.rows.begin + ((n \div Size(b.cols)) % Size(b.rows)),
     b.cols.begin + (n % Size(b.cols)) >>

\* the index of the target buffer that the loop body at (i, j, k) writes
TargetIndex(target, p) == IF target = "ret" THEN <<p[2], p[3]>> ELSE p

\* the elements of the index range
RangeIndices(r) ==
  (r.pages.begin .. r.pages.end - 1) \X (r.rows.begin .. r.rows.end - 1)
    \X (r.cols.begin .. r.cols.end - 1)

\* the value the loop body at (i, j, k) writes
StepValue(j, p) ==
  CASE j.kernel \in NanmeanStackKernels ->
         nanmeanImageArrayImp_Body(j.keep, <<p[2], p[3]>>)
    [] j.kernel = "nanmeanImageArray_Pair" ->
         nanmeanImageArray_Pair_Body(src.data[<<p[2], p[3]>>], src2.data[<<p[2], p[3]>>])
    [] OTHER -> LoopBody(j.kernel, TargetBuffer(j.target).data, p, j.captured)

\* the elements, as <<buffer, index>>, that the loop body at (i, j, k) reads
Reads(j, p) ==
  CASE j.kernel \in {"maskImageDataZero_A", "maskImageDataZero_AT", "maskImageDataNan_AT"} ->
         { <<j.target, p>> }
    [] j.kernel = "maskImageDataNan_AM" -> { <<"mask", <<p[2], p[3]>>>> }
    [] j.kernel \in MaskArrayKernels \ {"maskImageDataNan_AM"} ->
         { <<"mask", <<p[2], p[3]>>>>, <<j.target, p>> }
    [] j.kernel \in {"movingAvgImageData_A", "correctImageData_Offset_A",
                     "correctImageData_Gain_A"} ->
         { <<"src2", p>>, <<j.target, p>> }
    [] j.kernel = "correctImageData_GainOffset_A" ->
         { <<"src2", p>>, <<"src3", p>>, <<j.target, p>> }
    [] j.kernel \in NanmeanStackKernels ->
         { <<"src", <<i, p[2], p[3]>>>> : i \in 0 .. src.shape[1] - 1 }
    [] j.kernel = "nanmeanImageArray_Pair" ->
         { <<"src", <<p[2], p[3]>>>>, <<"src2", <<p[2], p[3]>>>> }

\* the element the loop body at (i, j, k) writes
Writes(j, p) == { <<j.target, TargetIndex(j.target, p)>> }

\* the data the sequential path of the job's kernel leaves in its target,
\* started from the data the target held when the job began
SequentialResult(j) ==
  CASE j.kernel = "maskImageDataZero_A" ->
         xtFilterAssign(j.before, [p \in DOMAIN j.before |-> isnan(j.before[p])], Zero)
    [] j.kernel = "maskImageDataZero_AT" ->
         xtFilterAssign(j.before,
           [p \in DOMAIN j.before |-> \/ isnan(j.before[p])
                                      \/ Less(j.before[p], j.captured.lb)
                                      \/ Less(j.captured.ub, j.before[p])], Zero)
    [] j.kernel = "maskImageDataNan_AT" ->
         xtFilterAssign(j.before,
           [p \in DOMAIN j.before |-> \/ Less(j.before[p], j.captured.lb)
                                      \/ Less(j.captured.ub, j.before[p])], NaN)
    [] j.kernel \in NanmeanStackKernels ->
         xtNanmean(xtViewKeep(IF j.keep = <<>> THEN AllFrames(src.shape[1]) ELSE j.keep),
                   <<src.shape[2], src.shape[3]>>).data
    [] j.kernel = "nanmeanImageArray_Pair" ->
         xtNanmean(<<src.data, src2.data>>, src.shape).data
    [] OTHER ->
         RunBlocks(j.kernel, j.before, {WholeRange3d(TargetBuffer(j.target).shape)},
                   j.captured)

\* a variant in which both callers were handed the same buffer
Store_Shared(target, q, v) ==
  /\ src' = WithData(src, [src.data EXCEPT ![q] = v])
  /\ UNCHANGED <<src3, ret>>

\* one assignment to an element of the target buffer
Store(target, q, v) ==
  CASE target = "src" ->
         /\ src' = WithData(src, [src.data EXCEPT ![q] = v])
         /\ UNCHANGED <<src3, ret>>
    [] target = "src3" ->
         /\ src3' = WithData(src3, [src3.data EXCEPT ![q] = v])
         /\ UNCHANGED <<src, ret>>
    [] target = "ret" ->
         /\ ret' = WithData(ret, [ret.data EXCEPT ![q] = v])
         /\ UNCHANGED <<src, src3>>

\* thread t calls kernel k: the checks, then the range is split
Fork(t, k, c, keep_, target) ==
  /\ par[t].status = "idle"
  /\ op = "none"
  /\ withTBB \/ k \in LoopKernels
  /\ IF k \in NanmeanStackKernels THEN IsImageArray(src)
     ELSE IF k = "nanmeanImageArray_Pair" THEN IsImage(src) /\ IsImage(src2)
     ELSE IsImageArray(TargetBuffer(target))
  /\ LET e == Prologue(k, c, keep_, target)
     IN IF e # NoError
        THEN /\ par' = [par EXCEPT ![t] =
                         [Idle EXCEPT !.status = "threw", !.kernel = k, !.err = e,
                                      !.target = target]]
             /\ UNCHANGED ret
        ELSE \E P \in (IF withTBB THEN Partitions(JobRange(k, target))
                       ELSE {{JobRange(k, target)}}) :
             \E g \in (IF target = "ret" THEN {NaN, Zero} ELSE {NaN}) :
               LET fresh == Uniform(MeanShape(k), g)
               IN /\ ret' = IF target = "ret" THEN fresh ELSE ret
                  /\ par' = [par EXCEPT ![t] =
                       [status |-> "running", kernel |-> k, err |-> NoError,
                        target |-> target, captured |-> c, keep |-> keep_,
                        blocks |-> P, done |-> [b \in P |-> 0],
                        before |-> IF target = "ret" THEN fresh.data
                                   ELSE TargetBuffer(target).data,
                        visits |-> [p \in RangeIndices(JobRange(k, target)) |-> {}]]]
  /\ UNCHANGED <<withTBB, src, src2, src3, mask, out, op, lb, ub, count, keep, err,
                 src0, out0, fed>>

\* one worker runs the loop body of one block of thread t's call once
Step(t) ==
  /\ par[t].status = "running"
  /\ \E b \in par[t].blocks :
       /\ par[t].done[b] < Volume(b)
       /\ LET j == par[t]
              p == ElementAt(b, j.done[b])
          IN /\ Store(j.target, TargetIndex(j.target, p), StepValue(j, p))
             /\ par' = [par EXCEPT ![t].done[b] = @ + 1,
                                   ![t].visits[p] = @ \cup {b}]
  /\ UNCHANGED <<withTBB, src2, mask, out, op, lb, ub, count, keep, err,
                 src0, out0, fed>>

\* a variant in which the call returns without waiting for its blocks
Join_Early(t) ==
  /\ par[t].status = "running"
  /\ par' = [par EXCEPT ![t].status = "returned"]
  /\ UNCHANGED <<withTBB, src, src2, src3, mask, out, ret, op, lb, ub, count, keep,
                 err, src0, out0, fed>>

\* tbb::parallel_for returns to thread t, and the kernel to its caller
Join(t) ==
  /\ par[t].status = "running"
  /\ \A b \in par[t].blocks : par[t].done[b] = Volume(b)
  /\ par' = [par EXCEPT ![t].status = "returned"]
  /\ UNCHANGED <<withTBB, src, src2, src3, mask, out, ret, op, lb, ub, count, keep,
                 err, src0, out0, fed>>

-----------------------------------------------------------------------------
(* The buffers and arguments the calls are tried on *)

Values == {NaN} \cup { R(k) : k \in 0 .. MaxVal }

\* thresholds <<lb, ub>>: the lowest and the highest value above zero
Thresholds == { <<R(1), R(1)>>, <<R(1), R(MaxVal)>>, <<R(MaxVal), R(MaxVal)>> }

Shapes2 == { s \in (1 .. MaxPix) \X (1 .. MaxPix) : s[1] * s[2] <= MaxPix }

Shapes3 == { <<f>> \o s : f \in 1 .. MaxFrames, s \in Shapes2 }

\* the buffer that holds x at one index and bg everywhere else
Patched(shape, bg, at, x) ==
  [shape |-> shape, data |-> [p \in Indices(shape) |-> IF p = at THEN x ELSE bg]]

\* the last two dimensions of a shape
ImageShape(shape) == SubSeq(shape, Len(shape) - 1, Len(shape))

NoCall ==
  /\ ret = NoBuffer
  /\ op = "none"
  /\ lb = NaN
  /\ ub = NaN
  /\ count = 0
  /\ keep = <<>>
  /\ err = NoError
  /\ src0 = src
  /\ out0 = out
  /\ fed = <<>>
  /\ par = [t \in Threads |-> Idle]

-----------------------------------------------------------------------------
(* Masking: any sequence of masking calls on an image or an image array,   *)
(* with a mask and an output mask of the image's shape.  One pixel of the  *)
(* image, of the mask and of the output mask is chosen freely, and so is   *)
(* what all the other pixels hold.                                         *)

Init ==
  /\ withTBB \in BOOLEAN
  /\ \E shape \in Shapes2 \cup Shapes3 :
     \E at \in Indices(shape) :
       /\ src \in { Patched(shape, bg, at, x) : bg \in Values, x \in Values }
       /\ mask \in { Patched(ImageShape(shape), bg, ImageShape(at), x) :
                       bg \in BOOLEAN, x \in BOOLEAN }
       /\ out \in IF Len(shape) = 2
                  THEN { Patched(shape, bg, at, x) : bg \in BOOLEAN, x \in BOOLEAN }
                  ELSE {Uniform(ImageShape(shape), FALSE)}
  /\ src2 = NoBuffer
  /\ src3 = NoBuffer
  /\ NoCall

Next ==
  \/ maskImageDataZero_I
  \/ maskImageDataNan_I
  \/ imageDataNanMask
  \/ \E t \in Thresholds : maskImageDataZero_T(t[1], t[2])
  \/ \E t \in Thresholds : maskImageDataZero_TO(t[1], t[2])
  \/ \E t \in Thresholds : maskImageDataNan_T(t[1], t[2])
  \/ \E t \in Thresholds : maskImageDataNan_TO(t[1], t[2])
  \/ maskImageDataZero_M
  \/ maskImageDataZero_MO
  \/ maskImageDataNan_M
  \/ maskImageDataNan_MO
  \/ \E t \in Thresholds : maskImageDataZero_MT(t[1], t[2])
  \/ \E t \in Thresholds : maskImageDataZero_MTO(t[1], t[2])
  \/ \E t \in Thresholds : maskImageDataNan_MT(t[1], t[2])
  \/ \E t \in Thresholds : maskImageDataNan_MTO(t[1], t[2])
  \/ maskImageDataZero_A
  \/ maskImageDataNan_A
  \/ \E t \in Thresholds : maskImageDataZero_AT(t[1], t[2])
  \/ \E t \in Thresholds : maskImageDataNan_AT(t[1], t[2])
  \/ maskImageDataZero_AM
  \/ maskImageDataNan_AM
  \/ \E t \in Thresholds : maskImageDataZero_AMT(t[1], t[2])
  \/ \E t \in Thresholds : maskImageDataNan_AMT(t[1], t[2])
  \/ Proceed

Spec == Init /\ [][Next]_vars

-----------------------------------------------------------------------------
(* nanmean: one pixel of the stack holds any values over the frames and    *)
(* the other pixels hold one value; or two images, of any shapes, that     *)
(* differ from their backgrounds at one index.                             *)

\* every keep of at most MaxKeep indices of the n frames, repetitions included
Keeps(n) == UNION { [1 .. len -> 0 .. n - 1] : len \in 0 .. MaxKeep }

Quiet ==
  /\ mask = Uniform(ImageShape(src.shape), FALSE)
  /\ out = Uniform(ImageShape(src.shape), FALSE)
  /\ src3 = NoBuffer

InitMean ==
  /\ withTBB \in BOOLEAN
  /\ \/ \E shape \in Shapes3 :
        \E at \in Indices(ImageShape(shape)) :
        \E col \in [0 .. shape[1] - 1 -> Values] :
        \E bg \in Values :
          /\ src = [shape |-> shape,
                    data |-> [p \in Indices(shape) |->
                                IF <<p[2], p[3]>> = at THEN col[p[1]] ELSE bg]]
          /\ src2 = NoBuffer
     \/ \E shape \in Shapes2 :
        \E at \in Indices(shape) :
          /\ src \in { Patched(shape, bg, at, x) : bg \in Values, x \in Values }
          /\ src2 \in { Patched(shape2, bg, at, x) :
                          shape2 \in Shapes2, bg \in Values, x \in Values }
  /\ Quiet
  /\ NoCall

NextMean ==
  \/ \E keep_ \in Keeps(src.shape[1]) : nanmeanImageArray_K(keep_)
  \/ nanmeanImageArray
  \/ nanmeanImageArray_Pair
  \/ Proceed

SpecMean == InitMean /\ [][NextMean]_vars

-----------------------------------------------------------------------------
(* Shapes: one call of a kernel that checks shapes, on buffers whose       *)
(* shapes are chosen independently of each other.  Either the mask and the *)
(* output mask vary, or the second and the third data buffer do.  src      *)
(* holds any value at its first index and any value everywhere else.       *)

\* the shapes a buffer of the type of a buffer of this shape can have
SameRank(shape) == IF Len(shape) = 2 THEN Shapes2 ELSE Shapes3

\* the shape with its last two dimensions exchanged
Transposed(shape) ==
  [i \in 1 .. Len(shape) |->
     IF i = Len(shape) THEN shape[i - 1]
     ELSE IF i = Len(shape) - 1 THEN shape[i + 1] ELSE shape[i]]

\* the shape itself, the shapes that differ from it in one dimension, and
\* its transposition
Nearby(shape) ==
  { s \in SameRank(shape) :
      \/ Cardinality({ i \in 1 .. Len(shape) : s[i] # shape[i] }) <= 1
      \/ s = Transposed(shape) }

Origin(shape) == [i \in 1 .. Len(shape) |-> 0]

Counts == 0 .. MaxCount

InitShape ==
  /\ withTBB \in BOOLEAN
  /\ \E shape \in Shapes2 \cup Shapes3 :
       /\ src \in { Patched(shape, bg, Origin(shape), x) : bg \in Values, x \in Values }
       /\ \/ /\ mask \in { Uniform(s, b) : s \in Shapes2, b \in BOOLEAN }
             /\ out \in IF Len(shape) = 2
                        THEN { Uniform(s, b) : s \in Shapes2, b \in BOOLEAN }
                        ELSE {Uniform(ImageShape(shape), FALSE)}
             /\ src2 = NoBuffer
             /\ src3 = NoBuffer
          \/ /\ mask = Uniform(ImageShape(shape), FALSE)
             /\ out = Uniform(ImageShape(shape), FALSE)
             /\ src2 \in { Uniform(s, R(MaxVal)) : s \in Nearby(shape) }
             /\ src3 \in { Uniform(s, R(1)) : s \in Nearby(shape) }
  /\ NoCall

NextShape ==
  \/ imageDataNanMask
  \/ \E t \in Thresholds : maskImageDataZero_TO(t[1], t[2])
  \/ \E t \in Thresholds : maskImageDataNan_TO(t[1], t[2])
  \/ maskImageDataZero_M
  \/ maskImageDataZero_MO
  \/ maskImageDataNan_M
  \/ maskImageDataNan_MO
  \/ \E t \in Thresholds : maskImageDataZero_MT(t[1], t[2])
  \/ \E t \in Thresholds : maskImageDataZero_MTO(t[1], t[2])
  \/ \E t \in Thresholds : maskImageDataNan_MT(t[1], t[2])
  \/ \E t \in Thresholds : maskImageDataNan_MTO(t[1], t[2])
  \/ maskImageDataZero_AM
  \/ maskImageDataNan_AM
  \/ \E t \in Thresholds : maskImageDataZero_AMT(t[1], t[2])
  \/ \E t \in Thresholds : maskImageDataNan_AMT(t[1], t[2])
  \/ nanmeanImageArray_Pair
  \/ \E c \in Counts : movingAvgImageData_I(c)
  \/ \E c \in Counts : movingAvgImageData_A(c)
  \/ correctImageData_Offset_A
  \/ correctImageData_Gain_A
  \/ correctImageData_Offset_I
  \/ correctImageData_Gain_I
  \/ correctImageData_GainOffset_A
  \/ correctImageData_GainOffset_I

SpecShape == InitShape /\ [][NextShape]_vars

-----------------------------------------------------------------------------
(* Moving average, driven as a running mean: the n-th call passes count = n *)
(* and the n-th frame.  The n-th frame holds 2n everywhere but at its first *)
(* index, where it holds any value; the average starts with one value      *)
(* everywhere.                                                             *)

AvgValues == {NaN, Zero} \cup { R(2 * k) : k \in 1 .. MaxCount }

Frame(shape, n, x) == Patched(shape, R(2 * n), Origin(shape), x)

InitAvg ==
  /\ withTBB \in BOOLEAN
  /\ \E shape \in Shapes2 \cup Shapes3 :
       /\ src \in { Uniform(shape, x) : x \in {NaN, Zero, R(MaxVal)} }
       /\ src2 \in { Frame(shape, 1, x) : x \in AvgValues }
  /\ Quiet
  /\ NoCall

NextAvg ==
  \/ Len(fed) < MaxCount /\ movingAvgImageData_I(Len(fed) + 1)
  \/ Len(fed) < MaxCount /\ movingAvgImageData_A(Len(fed) + 1)
  \/ \E x \in AvgValues :
       Len(fed) < MaxCount /\ ProceedWith(Frame(src.shape, Len(fed) + 1, x))

SpecAvg == InitAvg /\ [][NextAvg]_vars

-----------------------------------------------------------------------------
(* NaN in the moving average: any sequence of movingAvgImageData calls     *)
(* whose counts are 1 or the largest, in any order.  The average and the   *)
(* frames are finite everywhere but at their first index, where each may   *)
(* hold NaN.                                                               *)

Sample(shape, x) == Patched(shape, R(1), Origin(shape), x)

InitPoison ==
  /\ withTBB \in BOOLEAN
  /\ \E shape \in Shapes2 \cup Shapes3 :
       /\ src \in { Patched(shape, Zero, Origin(shape), x) : x \in {NaN, Zero} }
       /\ src2 \in { Sample(shape, x) : x \in {NaN, R(MaxVal)} }
  /\ Quiet
  /\ NoCall

NextPoison ==
  \/ \E n \in {1, MaxCount} : Len(fed) < MaxCalls /\ movingAvgImageData_I(n)
  \/ \E n \in {1, MaxCount} : Len(fed) < MaxCalls /\ movingAvgImageData_A(n)
  \/ \E x \in {NaN, R(MaxVal)} :
       Len(fed) < MaxCalls /\ ProceedWith(Sample(src.shape, x))

SpecPoison == InitPoison /\ [][NextPoison]_vars

-----------------------------------------------------------------------------
(* Correction: one call of correctImageData.  Either the three buffers     *)
(* have one shape, and each holds any value at its first index; or the     *)
(* constants have shapes of their own.                                     *)

InitCorrect ==
  /\ withTBB \in BOOLEAN
  /\ \E shape \in Shapes2 \cup Shapes3 :
       \/ /\ src \in { Patched(shape, bg, Origin(shape), x) : bg \in Values, x \in Values }
          /\ src2 \in { Patched(shape, R(MaxVal), Origin(shape), x) : x \in Values }
          /\ src3 \in { Patched(shape, R(1), Origin(shape), x) : x \in Values }
       \/ /\ src \in { Uniform(shape, x) : x \in Values }
          /\ src2 \in { Uniform(s, R(MaxVal)) : s \in Nearby(shape) }
          /\ src3 \in { Uniform(s, R(1)) : s \in Nearby(shape) }
  /\ mask = Uniform(ImageShape(src.shape), FALSE)
  /\ out = Uniform(ImageShape(src.shape), FALSE)
  /\ NoCall

NextCorrect ==
  \/ correctImageData_Offset_A
  \/ correctImageData_Gain_A
  \/ correctImageData_Offset_I
  \/ correctImageData_Gain_I
  \/ correctImageData_GainOffset_A
  \/ correctImageData_GainOffset_I

SpecCorrect == InitCorrect /\ [][NextCorrect]_vars

-----------------------------------------------------------------------------
(* Blocks: one stack-wide call on the parallel path, followed element by   *)
(* element.  The stack holds one value at its first index and another      *)
(* everywhere else, the mask hits the first pixel, and the other operands  *)
(* have the shape of the stack.                                            *)

InitPar ==
  /\ withTBB = TRUE
  /\ \E shape \in Shapes2 \cup Shapes3 :
       /\ src \in { Patched(shape, R(MaxVal), Origin(shape), x) : x \in {NaN, R(1)} }
       /\ src2 = Patched(shape, R(MaxVal), Origin(shape), R(1))
       /\ src3 = Uniform(shape, R(1))
       /\ mask = Patched(ImageShape(shape), FALSE, <<0, 0>>, TRUE)
       /\ out = Uniform(ImageShape(shape), FALSE)
  /\ NoCall

\* the calls of the first thread on src
CallOnSrc(t) ==
  \/ \E k \in {"maskImageDataZero_A", "maskImageDataZero_AM", "maskImageDataNan_AM"} :
       Fork(t, k, NoCapture, <<>>, "src")
  \/ \E k \in {"maskImageDataZero_AT", "maskImageDataNan_AT",
               "maskImageDataZero_AMT", "maskImageDataNan_AMT"} :
       Fork(t, k, Captured(R(1), R(1), 0), <<>>, "src")
  \/ \E n \in {0, MaxCount} :
       Fork(t, "movingAvgImageData_A", Captured(NaN, NaN, n), <<>>, "src")
  \/ \E k \in {"correctImageData_Offset_A", "correctImageData_Gain_A",
               "correctImageData_GainOffset_A"} :
       Fork(t, k, NoCapture, <<>>, "src")

\* the calls that return a new image
CallForMean(t) ==
  \/ /\ IsImageArray(src)
     /\ \E keep_ \in { sel \in Keeps(src.shape[1]) : Len(sel) <= 1 } :
          Fork(t, "nanmeanImageArray_K", NoCapture, keep_, "ret")
  \/ Fork(t, "nanmeanImageArray", NoCapture, <<>>, "ret")
  \/ Fork(t, "nanmeanImageArray_Pair", NoCapture, <<>>, "ret")

NextPar ==
  \/ CallOnSrc("first")
  \/ CallForMean("first")
  \/ Step("first")
  \/ Join("first")

SpecPar == InitPar /\ [][NextPar]_vars

-----------------------------------------------------------------------------
(* Two callers: the first thread masks the stack src with mask, the second *)
(* updates the stack src3 from src2, each by one call, at the same time.   *)
(* No buffer is an argument of both calls.  The stacks are columns of      *)
(* frames of one pixel; src3 starts as src upside down.                    *)

\* the buffer with the elements of b in reverse order along every axis
Flipped(b) ==
  WithData(b, [p \in DOMAIN b.data |->
                 b.data[[i \in 1 .. Len(p) |-> b.shape[i] - 1 - p[i]]]])

InitTwo ==
  /\ withTBB \in BOOLEAN
  /\ \E f \in 1 .. MaxFrames :
       LET shape == <<f, 1, 1>>
       IN /\ src \in { Patched(shape, R(MaxVal), Origin(shape), x) : x \in {NaN, R(1)} }
          /\ src2 = Uniform(shape, Zero)
          /\ src3 = Flipped(src)
          /\ mask \in { Uniform(ImageShape(shape), b) : b \in BOOLEAN }
          /\ out = Uniform(ImageShape(shape), FALSE)
  /\ NoCall

\* the calls of the first thread: src and mask
CallOnSrcWithMask(t) ==
  \/ \E k \in {"maskImageDataZero_AM", "maskImageDataNan_AM"} :
       Fork(t, k, NoCapture, <<>>, "src")
  \/ \E k \in {"maskImageDataZero_AMT", "maskImageDataNan_AMT", "maskImageDataZero_AT"} :
       Fork(t, k, Captured(R(1), R(1), 0), <<>>, "src")

\* the calls of the second thread: src3 and src2
CallOnSrc3(t) ==
  \/ Fork(t, "movingAvgImageData_A", Captured(NaN, NaN, MaxCount), <<>>, "src3")
  \/ \E k \in {"correctImageData_Offset_A", "correctImageData_Gain_A"} :
       Fork(t, k, NoCapture, <<>>, "src3")

NextTwo ==
  \/ CallOnSrcWithMask("first")
  \/ CallOnSrc3("second")
  \/ \E t \in Threads : Step(t)
  \/ \E t \in Threads : Join(t)

SpecTwo == InitTwo /\ [][NextTwo]_vars

-----------------------------------------------------------------------------
(* Vocabulary of the properties: the last call, seen from the state it     *)
(* left.  src0 and out0 are the buffers as the call found them.            *)

Returned(k) == op = k /\ err = NoError

Pixels == DOMAIN src0.data

Before(p) == src0.data[p]

After(p) == src.data[p]

\* the mask bit that applies to pixel p of an image or of an image array
MaskBit(p) == mask.data[ImageShape(p)]

OutOfRange(v) == Less(v, lb) \/ Less(ub, v)

ShapesKept == src.shape = src0.shape /\ out.shape = out0.shape

-----------------------------------------------------------------------------
\* C1: in the mask+threshold overloads with an output mask, a pixel is
\* decided by the mask, then by a NaN it already holds, then by the
\* thresholds.  maskImageDataNan(src, mask, lb, ub, out) leaves NaN and
\* out = true in every pixel whose mask bit is true or whose value is out of
\* range, and records a pixel that is already NaN (mask bit false) with its
\* value left NaN; maskImageDataZero(src, mask, lb, ub, out) leaves 0 and
\* out = true in every one of these pixels, the already-NaN one included.
C1_MaskThresholdOut ==
  /\ Returned("maskImageDataNan_MTO") =>
       /\ ShapesKept
       /\ \A p \in Pixels :
            /\ MaskBit(p) => isnan(After(p)) /\ out.data[p]
            /\ ~MaskBit(p) /\ isnan(Before(p)) => After(p) = Before(p) /\ out.data[p]
            /\ ~MaskBit(p) /\ OutOfRange(Before(p)) => isnan(After(p)) /\ out.data[p]
  /\ Returned("maskImageDataZero_MTO") =>
       /\ ShapesKept
       /\ \A p \in Pixels :
            MaskBit(p) \/ isnan(Before(p)) \/ OutOfRange(Before(p))
              => After(p) = Zero /\ out.data[p]

\* the example of the claim, scaled: mask = [true, false], value = [1, 2],
\* lb = ub = 1 gives [NaN, NaN] and out = [true, true]
C1_Witness ==
  /\ Returned("maskImageDataNan_MTO")
  /\ src0.shape = <<1, 2>>
  /\ mask.data[<<0, 0>>] /\ ~mask.data[<<0, 1>>]
  /\ src0.data[<<0, 0>>] = R(1) /\ src0.data[<<0, 1>>] = R(2)
  /\ lb = R(1) /\ ub = R(1)
  /\ ~out0.data[<<0, 0>>] /\ ~out0.data[<<0, 1>>]
  /\ isnan(src.data[<<0, 0>>]) /\ isnan(src.data[<<0, 1>>])
  /\ out.data[<<0, 0>>] /\ out.data[<<0, 1>>]

-----------------------------------------------------------------------------
\* the kernels that take an output mask, and the pixels each invalidates
OutKernels ==
  { "imageDataNanMask", "maskImageDataZero_TO", "maskImageDataNan_TO",
    "maskImageDataZero_MO", "maskImageDataNan_MO",
    "maskImageDataZero_MTO", "maskImageDataNan_MTO" }

Invalidated(p) ==
  CASE op = "imageDataNanMask" -> isnan(Before(p))
    [] op \in {"maskImageDataZero_TO", "maskImageDataNan_TO"} ->
         isnan(Before(p)) \/ OutOfRange(Before(p))
    [] op \in {"maskImageDataZero_MO", "maskImageDataNan_MO"} ->
         MaskBit(p) \/ isnan(Before(p))
    [] op \in {"maskImageDataZero_MTO", "maskImageDataNan_MTO"} ->
         MaskBit(p) \/ isnan(Before(p)) \/ OutOfRange(Before(p))
    [] OTHER -> FALSE

\* C2: over any sequence of masking calls, a bit of the output mask that is
\* true before a call is true after it, and a call that takes an output mask
\* leaves out = (out before the call) OR (the pixels the call invalidated).
C2_OutAccumulates ==
  /\ out.shape = out0.shape
  /\ \A p \in DOMAIN out0.data : out0.data[p] => out.data[p]
  /\ op \in OutKernels /\ err = NoError =>
       \A p \in Pixels : out.data[p] <=> (out0.data[p] \/ Invalidated(p))

\* a call found a bit set for a pixel it does not invalidate, kept it and
\* set another one
C2_Witness ==
  /\ Returned("maskImageDataNan_TO")
  /\ \E p, q \in Pixels :
       /\ out0.data[p] /\ ~Invalidated(p) /\ out.data[p]
       /\ ~out0.data[q] /\ Invalidated(q) /\ out.data[q]

-----------------------------------------------------------------------------
\* C3: threshold masking treats a pixel as invalid exactly when it is NaN,
\* or < lb, or > ub; a value equal to lb or to ub is valid.  The Zero
\* variant leaves 0 in every invalid pixel, the Nan variant leaves a NaN as
\* it is and NaN in every out-of-range pixel, and both leave every valid
\* pixel as it was, in an Image and in every frame of an ImageArray.
C3_Threshold ==
  /\ \/ Returned("maskImageDataZero_T")
     \/ Returned("maskImageDataZero_TO")
     \/ Returned("maskImageDataZero_AT")
     => /\ src.shape = src0.shape
        /\ \A p \in Pixels :
             /\ isnan(Before(p)) \/ OutOfRange(Before(p)) => After(p) = Zero
             /\ ~isnan(Before(p)) /\ ~OutOfRange(Before(p)) => After(p) = Before(p)
             /\ Before(p) = lb \/ Before(p) = ub => After(p) = Before(p)
  /\ \/ Returned("maskImageDataNan_T")
     \/ Returned("maskImageDataNan_TO")
     \/ Returned("maskImageDataNan_AT")
     => /\ src.shape = src0.shape
        /\ \A p \in Pixels :
             /\ isnan(Before(p)) => After(p) = Before(p)
             /\ OutOfRange(Before(p)) => isnan(After(p))
             /\ ~isnan(Before(p)) /\ ~OutOfRange(Before(p)) => After(p) = Before(p)
             /\ Before(p) = lb \/ Before(p) = ub => After(p) = Before(p)

\* an image array, run in parallel: a pixel equal to ub is kept in one
\* frame, a pixel above ub is zeroed in another
C3_Witness ==
  /\ Returned("maskImageDataZero_AT")
  /\ withTBB
  /\ \E p, q \in Pixels :
       /\ p[1] # q[1]
       /\ Before(p) = ub /\ Before(p) # Zero /\ After(p) = Before(p)
       /\ Less(ub, Before(q)) /\ After(q) = Zero

-----------------------------------------------------------------------------
\* C4: boolean-mask masking invalidates a pixel wherever the mask is true,
\* whatever its value.  The Zero variant leaves 0 in every pixel whose mask
\* bit is true and in every pixel that was NaN; the Nan variant leaves NaN
\* in the pixels whose mask bit is true and changes no other pixel.
C4_BooleanMask ==
  /\ \/ Returned("maskImageDataZero_M")
     \/ Returned("maskImageDataZero_MO")
     \/ Returned("maskImageDataZero_AM")
     => /\ src.shape = src0.shape
        /\ \A p \in Pixels :
             MaskBit(p) \/ isnan(Before(p)) => After(p) = Zero
  /\ \/ Returned("maskImageDataNan_M")
     \/ Returned("maskImageDataNan_MO")
     \/ Returned("maskImageDataNan_AM")
     => /\ src.shape = src0.shape
        /\ \A p \in Pixels :
             /\ MaskBit(p) => isnan(After(p))
             /\ ~MaskBit(p) => After(p) = Before(p)

\* the Zero variant zeroed a NaN whose mask bit is false and a finite pixel
\* whose mask bit is true
C4_Witness ==
  /\ Returned("maskImageDataZero_M")
  /\ \E p, q \in Pixels :
       /\ ~MaskBit(p) /\ isnan(Before(p)) /\ After(p) = Zero
       /\ MaskBit(q) /\ ~isnan(Before(q)) /\ Before(q) # Zero /\ After(q) = Zero

-----------------------------------------------------------------------------
\* C5: in mask+threshold masking of an ImageArray the 2D mask applies to
\* every frame and comes first: a pixel (i, j, k) with mask(j, k) true is
\* invalidated whatever its value, and one with mask(j, k) false follows the
\* NaN/threshold rule (Zero: NaN or out of range -> 0; Nan: a NaN kept, out
\* of range -> NaN, in range unchanged).
C5_ArrayMaskThreshold ==
  /\ Returned("maskImageDataZero_AMT") =>
       /\ src.shape = src0.shape
       /\ \A p \in Pixels :
            /\ mask.data[<<p[2], p[3]>>] => After(p) = Zero
            /\ ~mask.data[<<p[2], p[3]>>] =>
                 After(p) = IF isnan(Before(p)) \/ OutOfRange(Before(p))
                            THEN Zero ELSE Before(p)
  /\ Returned("maskImageDataNan_AMT") =>
       /\ src.shape = src0.shape
       /\ \A p \in Pixels :
            /\ mask.data[<<p[2], p[3]>>] => isnan(After(p))
            /\ ~mask.data[<<p[2], p[3]>>] =>
                 After(p) = IF isnan(Before(p)) \/ OutOfRange(Before(p))
                            THEN NaN ELSE Before(p)

\* two frames hold an in-range value at a masked pixel, and both lose it
C5_Witness ==
  /\ Returned("maskImageDataNan_AMT")
  /\ \E p, q \in Pixels :
       /\ p[1] # q[1] /\ p[2] = q[2] /\ p[3] = q[3]
       /\ mask.data[<<p[2], p[3]>>]
       /\ ~isnan(Before(p)) /\ ~OutOfRange(Before(p)) /\ isnan(After(p))
       /\ ~isnan(Before(q)) /\ ~OutOfRange(Before(q)) /\ isnan(After(q))
  /\ \E r \in Pixels : ~mask.data[<<r[2], r[3]>>] /\ After(r) = Before(r)

-----------------------------------------------------------------------------
\* C6: bare masking.  The Zero variant replaces every NaN by 0 and leaves
\* every other pixel as it was, so that no NaN remains; the Nan variant
\* changes nothing.  Both for an Image and for an ImageArray.
C6_Bare ==
  /\ Returned("maskImageDataZero_I") \/ Returned("maskImageDataZero_A") =>
       /\ src.shape = src0.shape
       /\ \A p \in Pixels :
            /\ After(p) = IF isnan(Before(p)) THEN Zero ELSE Before(p)
            /\ ~isnan(After(p))
  /\ Returned("maskImageDataNan_I") \/ Returned("maskImageDataNan_A") =>
       src = src0

\* the sequential path zeroed the NaN of an image array and kept the rest
C6_Witness ==
  /\ Returned("maskImageDataZero_A")
  /\ ~withTBB
  /\ \E p, q \in Pixels :
       /\ isnan(Before(p)) /\ After(p) = Zero
       /\ Before(q) # Zero /\ ~isnan(Before(q)) /\ After(q) = Before(q)

-----------------------------------------------------------------------------
\* the kernels that take a mask, an output mask, a second and a third data
\* buffer
MaskKernels ==
  { "maskImageDataZero_M", "maskImageDataZero_MO", "maskImageDataNan_M",
    "maskImageDataNan_MO", "maskImageDataZero_MT", "maskImageDataZero_MTO",
    "maskImageDataNan_MT", "maskImageDataNan_MTO", "maskImageDataZero_AM",
    "maskImageDataNan_AM", "maskImageDataZero_AMT", "maskImageDataNan_AMT" }

MovingAvgKernels == { "movingAvgImageData_I", "movingAvgImageData_A" }

GainOffsetKernels == { "correctImageData_GainOffset_A", "correctImageData_GainOffset_I" }

Src2Kernels ==
  { "nanmeanImageArray_Pair", "correctImageData_Offset_A", "correctImageData_Gain_A",
    "correctImageData_Offset_I", "correctImageData_Gain_I" }
    \cup MovingAvgKernels \cup GainOffsetKernels

\* the last call was given buffers whose shapes disagree; the mask of an
\* image array is compared with the shape of one frame
ShapesDisagree ==
  \/ op \in MaskKernels /\ mask.shape # ImageShape(src0.shape)
  \/ op \in OutKernels /\ out0.shape # src0.shape
  \/ op \in Src2Kernels /\ src2.shape # src0.shape
  \/ op \in GainOffsetKernels /\ src3.shape # src0.shape

\* the last call wrote nothing and returned nothing
NothingWritten == src = src0 /\ out = out0 /\ ret = NoBuffer

\* C7 as stated: a call with buffers whose shapes disagree raises a
\* shape-mismatch error and writes nothing.
C7_ShapeErrorAlways ==
  ShapesDisagree => err = ShapeError /\ NothingWritten

\* C7: a call with buffers whose shapes disagree raises an error before it
\* writes anything, src and out being left as they were, also when a first
\* shape check passes and a second one fails.  The error is a shape-mismatch
\* error, except that movingAvgImageData called with count = 0 raises the
\* invalid-argument error, its count check coming before its shape check.
C7_ShapeMismatch ==
  ShapesDisagree =>
    /\ err = IF op \in MovingAvgKernels /\ count = 0 THEN InvalidArgument
             ELSE ShapeError
    /\ NothingWritten

\* the mask has the shape of src and a true bit, the output mask has another
\* shape: the second check fails and the pixel under the true bit is kept
C7_Witness ==
  /\ op = "maskImageDataNan_MTO"
  /\ mask.shape = src0.shape
  /\ out0.shape # src0.shape
  /\ err = ShapeError
  /\ \E p \in Pixels : mask.data[p] /\ ~isnan(src0.data[p]) /\ src.data[p] = src0.data[p]
  /\ out = out0

-----------------------------------------------------------------------------
\* the frame indices the last nanmean call selected, in order
Selected == IF op = "nanmeanImageArray" THEN AllFrames(src.shape[1]) ELSE keep

\* the positions of Selected whose frame holds a number at pixel q
Numbers(q) ==
  { n \in 1 .. Len(Selected) : ~isnan(src.data[<<Selected[n], q[1], q[2]>>]) }

RECURSIVE SumAt(_, _)
SumAt(S, q) ==
  IF S = {} THEN Zero
  ELSE LET n == CHOOSE x \in S : TRUE
       IN Add(src.data[<<Selected[n], q[1], q[2]>>], SumAt(S \ {n}, q))

\* C8: nanmean over a stack.  At every pixel (j, k) the result is the sum
\* of the values src(i, j, k) that are not NaN, i running over keep (over
\* all frames when keep is omitted; an index counts as often as keep names
\* it), divided by the number of these values, and NaN when there is none.
C8_NanmeanStack ==
  Returned("nanmeanImageArray_K") \/ Returned("nanmeanImageArray") =>
    /\ ret.shape = <<src.shape[2], src.shape[3]>>
    /\ DOMAIN ret.data = Indices(ret.shape)
    /\ \A q \in Indices(ret.shape) :
         ret.data[q] = IF Numbers(q) = {} THEN NaN
                       ELSE DivCount(SumAt(Numbers(q), q), Cardinality(Numbers(q)))

\* over two frames: [NaN, x] gives x at one pixel, [NaN, NaN] gives NaN at
\* another
C8_Witness ==
  /\ Returned("nanmeanImageArray_K")
  /\ withTBB
  /\ Len(keep) = 2 /\ keep[1] # keep[2]
  /\ \E q, r \in Indices(ret.shape) :
       /\ Cardinality(Numbers(q)) = 1
       /\ ~isnan(ret.data[q]) /\ ret.data[q] # Zero
       /\ Numbers(r) = {} /\ isnan(ret.data[r])

-----------------------------------------------------------------------------
\* C9: nanmean of two images of one shape.  At every pixel: both NaN gives
\* NaN, exactly one NaN gives the other value as it is, no NaN gives
\* (x + y) / 2.  Images of different shapes raise a shape error.
C9_NanmeanPair ==
  op = "nanmeanImageArray_Pair" =>
    IF src.shape # src2.shape
    THEN err = ShapeError /\ ret = NoBuffer
    ELSE /\ err = NoError
         /\ ret.shape = src.shape
         /\ \A q \in Indices(src.shape) :
              LET x == src.data[q]
                  y == src2.data[q]
              IN ret.data[q] =
                   CASE isnan(x) /\ isnan(y) -> NaN
                     [] isnan(x) /\ ~isnan(y) -> y
                     [] ~isnan(x) /\ isnan(y) -> x
                     [] OTHER -> Norm(x[1] * y[2] + y[1] * x[2], 2 * x[2] * y[2])

\* nanmean(2, NaN) = 2 at one pixel and nanmean(NaN, NaN) = NaN at another
C9_Witness ==
  /\ Returned("nanmeanImageArray_Pair")
  /\ \E q, r \in Indices(src.shape) :
       /\ src.data[q] = R(2) /\ isnan(src2.data[q]) /\ ret.data[q] = R(2)
       /\ isnan(src.data[r]) /\ isnan(src2.data[r]) /\ isnan(ret.data[r])

-----------------------------------------------------------------------------
\* C10: nanmean(stack, keep) with an empty keep raises an invalid-argument
\* error on the parallel path, before any pixel is computed, and raises
\* nothing on the sequential path; nanmean(stack) never raises.
C10_EmptyKeep ==
  /\ op = "nanmeanImageArray_K" /\ keep = <<>> =>
       IF withTBB THEN err = InvalidArgument /\ ret = NoBuffer
       ELSE err = NoError
  /\ op = "nanmeanImageArray" => err = NoError

C10_Witness ==
  /\ op = "nanmeanImageArray_K"
  /\ keep = <<>>
  /\ withTBB
  /\ err = InvalidArgument
  /\ ret = NoBuffer

-----------------------------------------------------------------------------
\* the sum over the first n calls of fed of the data at pixel p
RECURSIVE FedSum(_, _)
FedSum(n, p) == IF n = 0 THEN Zero ELSE Add(fed[n].data[p], FedSum(n - 1, p))

\* the n-th call of fed passed count = n
DrivenInOrder == \A n \in 1 .. Len(fed) : fed[n].count = n

\* the last call of fed
LastFed == fed[Len(fed)]

\* C11: movingAvg run as a sequence.  When the n-th call passes count = n
\* and frame f_n, then after the n-th call every pixel of avg that saw no
\* NaN (in avg at the start and in f_1..f_n) is the arithmetic mean of
\* f_1..f_n at that pixel; and each call leaves
\* avg + (newFrame - avg) / count in every pixel.
C11_RunningMean ==
  Len(fed) > 0 =>
    /\ src.shape = src0.shape
    /\ \A p \in DOMAIN src.data :
         src.data[p] =
           LET d == Sub(LastFed.data[p], LastFed.before[p])
           IN Add(LastFed.before[p],
                  IF isnan(d) THEN NaN ELSE Norm(d[1], d[2] * LastFed.count))
    /\ DrivenInOrder =>
         \A p \in DOMAIN src.data :
           /\ ~isnan(fed[1].before[p])
           /\ \A n \in 1 .. Len(fed) : ~isnan(fed[n].data[p])
           => src.data[p] = DivCount(FedSum(Len(fed), p), Len(fed))

\* the example of the claim: avg = 0 is fed 2, 4, 6 with count 1, 2, 3 and
\* holds 2, 3, 4, in an image array on the parallel path
C11_Witness ==
  /\ Returned("movingAvgImageData_A")
  /\ withTBB
  /\ Len(fed) = 3
  /\ DrivenInOrder
  /\ \E p \in DOMAIN src.data :
       /\ fed[1].before[p] = Zero
       /\ fed[1].data[p] = R(2) /\ fed[2].data[p] = R(4) /\ fed[3].data[p] = R(6)
       /\ fed[2].before[p] = R(2) /\ fed[3].before[p] = R(3)
       /\ src.data[p] = R(4)

-----------------------------------------------------------------------------
\* C12: movingAvg called with count = 0 raises the invalid-argument error,
\* for an Image and for an ImageArray, whether or not the shapes of avg and
\* of the new frame agree, and leaves avg exactly as it was.
C12_CountZero ==
  op \in MovingAvgKernels /\ count = 0 =>
    /\ err = InvalidArgument
    /\ src = src0
    /\ out = out0
    /\ ret = NoBuffer
    /\ fed = <<>>

\* count = 0 and a frame of another shape: the count decides, and avg keeps
\* a value that differs from the frame's
C12_Witness ==
  /\ op = "movingAvgImageData_A"
  /\ count = 0
  /\ src2.shape # src0.shape
  /\ err = InvalidArgument
  /\ src = src0
  /\ src.data[Origin(src.shape)] = Zero

-----------------------------------------------------------------------------
\* C13: correct(src, gain, offset), for an Image and an ImageArray, leaves
\* gain * (src_before - offset) in every pixel: the offset is subtracted
\* first and the difference is multiplied by the gain.  gain and offset must
\* each have the shape of src: otherwise the call raises a shape error and
\* leaves src as it was.
C13_GainOffset ==
  op \in GainOffsetKernels =>
    IF src2.shape = src0.shape /\ src3.shape = src0.shape
    THEN /\ err = NoError
         /\ src.shape = src0.shape
         /\ \A p \in Pixels :
              LET d == Sub(Before(p), src3.data[p])
              IN After(p) = IF isnan(d) \/ isnan(src2.data[p]) THEN NaN
                            ELSE Norm(src2.data[p][1] * d[1], src2.data[p][2] * d[2])
    ELSE err = ShapeError /\ src = src0

\* a pixel where gain * (src - offset) and gain * src - offset differ holds
\* the first, in an image array on the parallel path
C13_Witness ==
  /\ Returned("correctImageData_GainOffset_A")
  /\ withTBB
  /\ \E p \in Pixels :
       /\ ~isnan(After(p))
       /\ After(p) = Mul(src2.data[p], Sub(Before(p), src3.data[p]))
       /\ After(p) # Sub(Mul(src2.data[p], Before(p)), src3.data[p])
       /\ After(p) # Before(p)

-----------------------------------------------------------------------------
OffsetKernels == { "correctImageData_Offset_A", "correctImageData_Offset_I" }

GainKernels == { "correctImageData_Gain_A", "correctImageData_Gain_I" }

\* C14: correct(src, constants) with one policy replaces every pixel, in
\* place, by src_before - constants under the Offset policy and by
\* src_before * constants under the Gain policy, pixel by pixel, for an
\* Image and an ImageArray, and leaves constants as they were.  constants of
\* another shape raise a shape error and src is left as it was.
C14_Policy ==
  [][ op' \in OffsetKernels \cup GainKernels /\ op = "none" =>
        /\ src2' = src2
        /\ IF src2.shape = src.shape
           THEN /\ err' = NoError
                /\ src'.shape = src.shape
                /\ DOMAIN src'.data = DOMAIN src.data
                /\ \A p \in DOMAIN src.data :
                     src'.data[p] = IF op' \in OffsetKernels
                                    THEN Sub(src.data[p], src2.data[p])
                                    ELSE Mul(src.data[p], src2.data[p])
           ELSE err' = ShapeError /\ src' = src ]_vars

\* the Offset policy on an image array: one pixel lost its own constant,
\* another pixel another constant
C14_Witness ==
  /\ Returned("correctImageData_Offset_A")
  /\ \E p, q \in Pixels :
       /\ src2.data[p] # src2.data[q]
       /\ ~isnan(After(p)) /\ After(p) = Sub(Before(p), src2.data[p]) /\ After(p) # Before(p)
       /\ ~isnan(After(q)) /\ After(q) = Sub(Before(q), src2.data[q]) /\ After(q) # Before(q)

-----------------------------------------------------------------------------
(* C15 *)

\* the calls that got past their checks
Forked == { t \in Threads : par[t].status \in {"running", "returned"} }

\* the blocks of thread t's call that visited element p of the index range
Visitors(t, p) == par[t].visits[p]

\* C15: on the parallel path the blocks of a stack-wide call are pairwise
\* disjoint and cover the index range, no element is written by two blocks
\* and at the return every element was written by exactly one, no block
\* reads an element that another block writes, and whatever the
\* interleaving the target holds at the return what the sequential path
\* leaves.
C15_BlocksIndependent ==
  \A t \in Forked :
    withTBB =>
      LET j == par[t]
          range == JobRange(j.kernel, j.target)
      IN /\ \A b1, b2 \in j.blocks :
              b1 # b2 => RangeIndices(b1) \cap RangeIndices(b2) = {}
         /\ UNION { RangeIndices(b) : b \in j.blocks } = RangeIndices(range)
         /\ \A p \in RangeIndices(range) : Cardinality(Visitors(t, p)) <= 1
         /\ \A b1, b2 \in j.blocks :
              b1 # b2 =>
                \A p1 \in RangeIndices(b1), p2 \in RangeIndices(b2) :
                  Reads(j, p1) \cap Writes(j, p2) = {}
         /\ j.status = "returned" =>
              /\ \A p \in RangeIndices(range) : Cardinality(Visitors(t, p)) = 1
              /\ TargetBuffer(j.target).data = SequentialResult(j)

\* a call that was split into several blocks has returned, and it changed
\* its target
C15_Witness ==
  /\ withTBB
  /\ par["first"].status = "returned"
  /\ Cardinality(par["first"].blocks) > 1
  /\ TargetBuffer(par["first"].target).data # par["first"].before

-----------------------------------------------------------------------------
(* C17 *)

\* the blocks of a call that have iterations left
Unfinished(j) == { b \in j.blocks : j.done[b] < Volume(b) }

\* the value element p of the range holds once its loop body has run
FinalValue(j, p) ==
  IF j.target = "ret" THEN StepValue(j, p)
  ELSE LoopBody(j.kernel, j.before, p, j.captured)

\* C17: when a stack-wide call on the parallel path has returned, none of
\* the blocks it spawned has an iteration left, and every element of its
\* target holds its final value.
C17_ReturnAfterBlocks ==
  \A t \in Threads :
    withTBB /\ par[t].status = "returned" =>
      LET j == par[t]
      IN /\ Unfinished(j) = {}
         /\ \A p \in RangeIndices(JobRange(j.kernel, j.target)) :
              TargetBuffer(j.target).data[TargetIndex(j.target, p)] = FinalValue(j, p)

\* a call whose range was split into several blocks, one of them of more
\* than one element, has returned
C17_Witness ==
  /\ withTBB
  /\ par["first"].status = "returned"
  /\ \E b1, b2 \in par["first"].blocks : b1 # b2 /\ Volume(b1) > 1

-----------------------------------------------------------------------------
(* C16 *)

\* the data the buffer of thread t held before either call
InitialData(t) == IF t = "first" THEN src0.data ELSE Flipped(src0).data

\* the buffer of thread t
BufferOf(t) == IF t = "first" THEN src ELSE src3

\* what the call of thread t leaves in its buffer when it runs alone, before
\* or after the call of the other thread
AloneResult(t) == SequentialResult([par[t] EXCEPT !.before = InitialData(t)])

\* C16: two kernel calls made at the same time from two threads, on buffers
\* that do not overlap, leave in each buffer what its call leaves when the
\* two calls run one after the other, in either order; a buffer whose call
\* has not begun still holds its initial data.
C16_DisjointCalls ==
  \A t \in Threads :
    /\ par[t].status = "returned" => BufferOf(t).data = AloneResult(t)
    /\ par[t].status \in {"idle", "threw"} => BufferOf(t).data = InitialData(t)

\* both calls have returned, each was split into several blocks and each
\* changed its buffer
C16_Witness ==
  \A t \in Threads :
    /\ par[t].status = "returned"
    /\ Cardinality(par[t].blocks) > 1
    /\ BufferOf(t).data # InitialData(t)

-----------------------------------------------------------------------------
(* C18 *)

\* the overload the last call resolved to
Called == CHOOSE o \in Overloads : o.name = op

MaskingReturned == op \in { o.name : o \in Overloads } /\ err = NoError

\* the overloads of the same variant as o that take an output mask
Recording(o) ==
  { r \in Overloads :
      r.criterion = o.criterion /\ r.fill = o.fill /\ r.rank = o.rank /\ r.out }

\* out is true at every pixel that a call with an output mask invalidated
InvalidatedRecorded ==
  op \in OutKernels /\ err = NoError =>
    \A p \in Pixels : Invalidated(p) => out.data[p]

\* C18 as stated: whatever masking variant was called (bare, threshold,
\* mask, mask + threshold; Zero or Nan; Image or ImageArray), the variant
\* has an overload that takes an output mask, and a call of such an
\* overload leaves out true at every pixel it invalidated.
C18_EveryVariantRecords ==
  /\ MaskingReturned => Recording(Called) # {}
  /\ InvalidatedRecorded

\* C18: a masking variant has an overload that takes an output mask exactly
\* when it is a threshold, mask or mask + threshold variant on an Image
\* (Zero and Nan alike): the bare variants and the ImageArray variants have
\* none.  A call of an overload with an output mask, and imageDataNanMask,
\* leave out true at every pixel they invalidated: NaN before the call,
\* out of range, or hit by the mask.
C18_ImageVariantsRecord ==
  /\ MaskingReturned =>
       (Recording(Called) # {} <=> Called.rank = 2 /\ Called.criterion # "bare")
  /\ InvalidatedRecorded

\* the Zero mask overload with an output mask recorded a pixel that was NaN
\* and not hit by the mask, and one that the mask hit
C18_Witness ==
  /\ Returned("maskImageDataZero_MO")
  /\ \E p, q \in Pixels :
       /\ isnan(Before(p)) /\ ~MaskBit(p) /\ ~out0.data[p] /\ out.data[p]
       /\ ~isnan(Before(q)) /\ MaskBit(q) /\ ~out0.data[q] /\ out.data[q]

-----------------------------------------------------------------------------
(* C19 *)

\* pixel p of the average or of the new frame was NaN at the n-th call
Poisoned(n, p) == isnan(fed[n].before[p]) \/ isnan(fed[n].data[p])

\* pixel p of the average after the first n calls, computed from the
\* history of pixel p alone
RECURSIVE Replay(_, _)
Replay(p, n) ==
  IF n = 0 THEN fed[1].before[p]
  ELSE Add(Replay(p, n - 1), DivCount(Sub(fed[n].data[p], Replay(p, n - 1)), fed[n].count))

\* C19: if a pixel of avg or of newFrame is NaN at a movingAvg call with
\* count >= 1, that pixel of avg is NaN when the call returns, it is NaN at
\* every later call and after it, whatever the frames and the counts; a
\* pixel that was NaN in neither at any call holds the value that its own
\* history gives, whatever the other pixels held.
C19_NanSticks ==
  \A p \in DOMAIN src.data :
    /\ \A n \in 1 .. Len(fed) :
         Poisoned(n, p) =>
           /\ isnan(src.data[p])
           /\ \A later \in n + 1 .. Len(fed) : isnan(fed[later].before[p])
    /\ (Len(fed) > 0 /\ \A n \in 1 .. Len(fed) : ~Poisoned(n, p)) =>
         src.data[p] = Replay(p, Len(fed))

\* a finite pixel of the average met a NaN sample, then a finite sample
\* with count 1, and is NaN; another pixel of the same buffers met no NaN
C19_Witness ==
  /\ Len(fed) >= 2
  /\ fed[2].count = 1
  /\ \E p, q \in DOMAIN src.data :
       /\ ~isnan(fed[1].before[p]) /\ isnan(fed[1].data[p])
       /\ ~isnan(fed[2].data[p])
       /\ isnan(src.data[p])
       /\ \A n \in 1 .. Len(fed) : ~Poisoned(n, q)
       /\ ~isnan(src.data[q])

-----------------------------------------------------------------------------
(* C20 *)

\* what the Zero overload and the Nan overload of the variant that was
\* called leave in pixel p and in its output bit, from the buffers and
\* arguments that the call found
ZeroVariant(p) ==
  CASE op \in {"maskImageDataZero_TO", "maskImageDataNan_TO"} ->
         maskImageDataZero_TO_Body(Before(p), out0.data[p], lb, ub)
    [] op \in {"maskImageDataZero_MO", "maskImageDataNan_MO"} ->
         maskImageDataZero_MO_Body(Before(p), MaskBit(p), out0.data[p])
    [] op \in {"maskImageDataZero_MTO", "maskImageDataNan_MTO"} ->
         maskImageDataZero_MTO_Body(Before(p), MaskBit(p), out0.data[p], lb, ub)

NanVariant(p) ==
  CASE op \in {"maskImageDataZero_TO", "maskImageDataNan_TO"} ->
         maskImageDataNan_TO_Body(Before(p), out0.data[p], lb, ub)
    [] op \in {"maskImageDataZero_MO", "maskImageDataNan_MO"} ->
         maskImageDataNan_MO_Body(Before(p), MaskBit(p), out0.data[p])
    [] op \in {"maskImageDataZero_MTO", "maskImageDataNan_MTO"} ->
         maskImageDataNan_MTO_Body(Before(p), MaskBit(p), out0.data[p], lb, ub)

ZeroOutKernels ==
  { "maskImageDataZero_TO", "maskImageDataZero_MO", "maskImageDataZero_MTO" }

NanOutKernels ==
  { "maskImageDataNan_TO", "maskImageDataNan_MO", "maskImageDataNan_MTO" }

\* C20: from the same src, mask, lb, ub and out, the Zero overload and the
\* Nan overload of a variant with an output mask (threshold, mask, mask +
\* threshold) leave the same output mask, the same value in every pixel
\* that the call does not invalidate, and 0 against NaN in every pixel that
\* it invalidates; the call that was made is one of the two.
C20_ZeroNanSameMask ==
  op \in ZeroOutKernels \cup NanOutKernels /\ err = NoError =>
    \A p \in Pixels :
      /\ <<After(p), out.data[p]>> = IF op \in ZeroOutKernels THEN ZeroVariant(p)
                                     ELSE NanVariant(p)
      /\ ZeroVariant(p)[2] = NanVariant(p)[2]
      /\ IF Invalidated(p)
         THEN ZeroVariant(p)[1] = Zero /\ isnan(NanVariant(p)[1])
         ELSE ZeroVariant(p)[1] = NanVariant(p)[1]

\* maskImageDataNan(src, mask, out) met a pixel that was NaN and hit by the
\* mask, and a pixel that it left alone
C20_Witness ==
  /\ Returned("maskImageDataNan_MO")
  /\ \E p, q \in Pixels :
       /\ isnan(Before(p)) /\ MaskBit(p) /\ ~out0.data[p] /\ out.data[p]
       /\ ~Invalidated(q) /\ ~isnan(After(q))

====
